---- MODULE Spec2Model ----
(***************************************************************************)
(* Gura-Bot: the multi-backend dispatch layer.                             *)
(*   - GeneralFailoverHandler   (translate/common/failover.go)             *)
(*   - WeightedRoundRobinSelector, FallbackSelector (selector/)            *)
(*   - TranslateService.Translate retry loop (translate/translate.go)      *)
(*   - CommonTranslator.Translate (translate/translator/translator.go)     *)
(* Time is counted in whole seconds.                                       *)
(***************************************************************************)
EXTENDS Integers, Sequences, FiniteSets, Bags, TLC

(* ------------------------------ bounds -------------------------------- *)
\* the clock runs from 1 to MaxNow
MaxNow == 4
\* failover configurations explored by the handler specification
MaxMaxFailures == 2
MaxCooldownBase == 2
MaxMaxDisableCycles == 3
\* OnFailure is explored until the handler is this many disable cycles past
\* its permanent disablement
ExtraCycles == 1
\* selector registries of up to MaxItems items with weights 1..MaxWeight
MaxItems == 3
MaxWeight == 3
\* ... and a sum of weights of at most MaxTotalWeight
MaxTotalWeight == 6
\* Select calls explored while some item is skipped as disabled
MaxSkewSelects == 2
\* the dispatch service: calls of Translate (concurrent or one after the
\* other), backends, retries, cooldowns
MaxCalls == 2
MaxSvcItems == 2
MaxRetry == 2
MaxRetryCooldown == 1
MaxSvcFailures == 2
MaxSvcDisableCycles == 2
\* goroutines calling one failover handler at once, and the calls they start
MaxProcs == 2
MaxMuOps == 4
\* the admission limiter: goroutines waiting at once, translator timeouts,
\* bucket sizes and refill rates (tokens per second)
MaxWaiters == 2
MaxTimeout == 2
MaxBucket == 2
MaxRefill == 1
\* the bot: pool size, messages received, reloads
MaxWorkerPoolSize == 2
MaxMessages == 3
MaxReloads == 1
\* the translators of one configuration file
MaxTranslators == 2
\* concurrent Select: goroutines, calls of Select
MaxSelProcs == 2
MaxSelects == 3
\* the invoke path: goroutines, calls of CommonTranslator.Translate
MaxInvProcs == 2
MaxInvCalls == 3
\* the locks: goroutines, items, calls of Select and of the handlers
MaxLockProcs == 2
MaxLockItems == 2
MaxLockCalls == 2

(* ------------------------ program constants --------------------------- *)
\* FailoverConfig.SetDefault
DefaultMaxFailures == 3
DefaultCooldownBaseSec == 120
DefaultMaxDisableCycles == 6
\* the zero time.Time of a fresh handler's disableUntil
ZeroTime == 0

VARIABLES
    now,        \* time.Now(), in seconds
    gfh,        \* one GeneralFailoverHandler (handler specification)
    call,       \* the last handler call: operation, time, state before, result
    nFail,      \* OnFailure calls since construction, -1 once OnSuccess was called
    coolSeen,   \* IsDisabled reported a cooldown and no OnSuccess/OnFailure since
    coolAtSuccess, \* disableUntil of the cooldown the last OnSuccess was called in
    selType,    \* "wrr" or "fallback": the Selector implementation in use
    items,      \* the selector's items, in insertion order
    totalConfigWeight, \* WeightedRoundRobinSelector.totalConfigWeight
    started,    \* registration is over: Select has been called
    sel,        \* the last Select call: items before, IsDisabled per item, result
    hist,       \* the last totalConfigWeight results of Select, oldest first
    slid,       \* hist has dropped its oldest entry at least once
    everDisabled, \* some item has been disabled since registration
    nSkew,      \* Select calls that skipped a disabled item
    svc,        \* TranslateService: maxmiumRetry, retryCooldown
    callers,    \* the bag of calls of TranslateService.Translate in progress
    result,     \* the call of Translate that ended last
    nCalls,     \* calls of Translate so far
    everSucceeded, \* some backend instance call has returned without error
    mu,         \* GeneralFailoverHandler.mu: the goroutine holding it, 0 when free
    procs,      \* the goroutines calling one handler: call, position, locals
    lin,        \* the handler had the calls run one at a time, in unlock order
    nOps,       \* handler calls started by the goroutines so far
    limiter,    \* CommonTranslator.limiter: NoLimiter (nil) or a token bucket
    ctTimeout,  \* CommonTranslator.timeout, in seconds
    acq,        \* the goroutines in CommonTranslator.Translate up to its wait
    det,        \* one GeneralLanguageDetector: limiter, failover handler
    detCall,    \* the last call of its Detect: inputs, handler before, error
    logLevel,   \* the level of the process-wide logger (logrus.SetLevel)
    bot,        \* Bot: translateService, allowedChats, messageSettings
    sig,        \* handleSignals: position in a reload, the configuration
                \* loaded, the settings in force when the reload began
    workerPoolSize, \* Bot.workerPoolSize
    qLen,       \* ServeBot: len(q), the elements in the channel q
    serve,      \* ServeBot: position in its loop, the chat of its message
    msgs,       \* the messages given to a goroutine so far, oldest first:
                \* position in handleMessage, the services it has used
    gauge,      \* metrics.MetricMessages, by state (one chat type)
    nReload,    \* calls of Bot.ReloadConfig since newBot
    upMetric,   \* metrics.MetricTranslatorUp of one CommonTranslator
    dtc,        \* TranslateService.defaultTranslatorConfig
    names,      \* initTranslatorEntries: the names registered so far
    added,      \* the options of the translator registered last
    initErr,    \* initTranslatorEntries: its err
    selMu,      \* WeightedRoundRobinSelector.mu: the goroutine holding it
    selProcs,   \* the goroutines calling Select: position, locals
    seqWeights, \* the current weights had the calls run one at a time
    selHist,    \* the results of the calls of Select, in unlock order
    nSelects,   \* calls of Select started so far
    invProcs,   \* the goroutines in CommonTranslator.Translate: position,
                \* the steps of the attempt so far
    nInv,       \* calls of CommonTranslator.Translate started so far
    run,        \* the item the last calls of Select returned one after the
                \* other while another item was enabled, and how many calls
    win,        \* the results of the last calls of Select that found every
                \* item enabled, at most totalConfigWeight of them
    locks,      \* the holders of the selector's mu, of each item's failover
                \* handler mu and of each item's weightedMu (0: unlocked)
    lkReg,      \* the selector's type, and whether each item is disabled
    lkProcs,    \* the goroutines in Select, OnSuccess, OnFailure or
                \* IsDisabled: position, the item lock held
    nLk         \* calls started so far

fhVars == <<gfh, call, nFail, coolSeen, coolAtSuccess>>

selVars == <<selType, items, totalConfigWeight, started, sel, hist, slid,
             everDisabled, nSkew>>

svcVars == <<svc, callers, result, nCalls, everSucceeded>>

muVars == <<mu, procs, lin, nOps>>

\* the variables of the specifications other than SpecFH, SpecSel and SpecSvc
limVars == <<limiter, ctTimeout, acq>>

detVars == <<det, detCall>>

rlVars == <<logLevel, bot, sig>>

botVars == <<workerPoolSize, qLen, serve, msgs, gauge, nReload>>

upVars == <<upMetric>>

confVars == <<dtc, names, added, initErr>>

wmVars == <<selMu, selProcs, seqWeights, selHist, nSelects>>

invVars == <<invProcs, nInv>>

smoothVars == <<run, win>>

lockVars == <<locks, lkReg, lkProcs, nLk>>

extVars == <<muVars, limVars, detVars, rlVars, botVars, upVars, confVars,
             wmVars, invVars, smoothVars, lockVars>>

vars == <<now, gfh, call, nFail, coolSeen, coolAtSuccess,
          selType, items, totalConfigWeight, started, sel, hist, slid,
          everDisabled, nSkew, svc, callers, result, nCalls,
          everSucceeded, mu, procs, lin, nOps, limiter, ctTimeout, acq,
          det, detCall, logLevel, bot, sig,
          workerPoolSize, qLen, serve, msgs, gauge, nReload, upMetric,
          dtc, names, added, initErr,
          selMu, selProcs, seqWeights, selHist, nSelects, invProcs, nInv,
          run, win, locks, lkReg, lkProcs, nLk>>

(* ------------------- GeneralFailoverHandler ---------------------------- *)
DefaultFailoverConfig ==
    [MaxFailures |-> DefaultMaxFailures,
     CooldownBaseSec |-> DefaultCooldownBaseSec,
     MaxDisableCycles |-> DefaultMaxDisableCycles]

\* configurations CheckAndMerge lets through: MaxFailures >= 1,
\* CooldownBaseSec > 0, MaxDisableCycles >= 1
FailoverConfigs ==
    [MaxFailures : 1..MaxMaxFailures,
     CooldownBaseSec : 1..MaxCooldownBase,
     MaxDisableCycles : 1..MaxMaxDisableCycles]
    \cup {DefaultFailoverConfig}

\* a reset that also ends the cooldown window
resetState_ClearsDisableUntil(h) ==
    [h EXCEPT !.failures = 0,
              !.currentCooldownMultiplier = 0,
              !.disableCycleCount = 0,
              !.disableUntil = ZeroTime,
              !.isPermanentlyDisabled = FALSE]

\* resetState: the counters and the permanent flag; disableUntil is not touched
resetState(h) ==
    [h EXCEPT !.failures = 0,
              !.currentCooldownMultiplier = 0,
              !.disableCycleCount = 0,
              !.isPermanentlyDisabled = FALSE]

NewGeneralFailoverHandler(conf) ==
    resetState([failoverConfig |-> conf,
                failures |-> 0,
                currentCooldownMultiplier |-> 0,
                disableCycleCount |-> 0,
                disableUntil |-> ZeroTime,
                isPermanentlyDisabled |-> FALSE])

\* a reset decided on the failure counter alone
OnSuccess_FailuresOnly(h) ==
    IF h.failures > 0 THEN resetState(h) ELSE h

OnSuccess(h) ==
    LET rst == h.failures > 0 \/ h.currentCooldownMultiplier > 0
                 \/ h.disableCycleCount > 0
    IN  IF rst THEN resetState(h) ELSE h

\* a cooldown that does not escalate with the multiplier
\* a threshold that is reached one failure late
ReachedMaxFailures_Late(f, conf) == f > conf.MaxFailures

\* OnFailure: gfh.failures >= gfh.failoverConfig.MaxFailures, after the
\* increment
ReachedMaxFailures(f, conf) == f >= conf.MaxFailures

OnFailureState_FixedCooldown(h, t) ==
    LET f == h.failures + 1 IN
    IF ReachedMaxFailures(f, h.failoverConfig)
    THEN LET m == h.currentCooldownMultiplier + 1
             c == h.disableCycleCount + 1
             h1 == [h EXCEPT !.failures = 0,
                             !.currentCooldownMultiplier = m,
                             !.disableCycleCount = c]
         IN  IF c >= h.failoverConfig.MaxDisableCycles
             THEN [h1 EXCEPT !.isPermanentlyDisabled = TRUE]
             ELSE [h1 EXCEPT !.disableUntil =
                                 t + h.failoverConfig.CooldownBaseSec]
    ELSE [h EXCEPT !.failures = f]

\* the handler after OnFailure at time t
OnFailureState(h, t) ==
    LET f == h.failures + 1 IN
    IF ReachedMaxFailures(f, h.failoverConfig)
    THEN LET m == h.currentCooldownMultiplier + 1
             c == h.disableCycleCount + 1
             h1 == [h EXCEPT !.failures = 0,
                             !.currentCooldownMultiplier = m,
                             !.disableCycleCount = c]
         IN  IF c >= h.failoverConfig.MaxDisableCycles
             THEN [h1 EXCEPT !.isPermanentlyDisabled = TRUE]
             ELSE [h1 EXCEPT !.disableUntil =
                                 t + m * h.failoverConfig.CooldownBaseSec]
    ELSE [h EXCEPT !.failures = f]

\* reports only the temporary disablement, not the permanent one
OnFailureResult_CooldownOnly(h) ==
    /\ h.failures + 1 >= h.failoverConfig.MaxFailures
    /\ h.disableCycleCount + 1 < h.failoverConfig.MaxDisableCycles

\* OnFailure's return value (isDisabled)
OnFailureResult(h) ==
    h.failures + 1 >= h.failoverConfig.MaxFailures

\* a cooldown that still holds at the instant disableUntil
IsDisabled_Inclusive(h, t) ==
    h.isPermanentlyDisabled \/ t <= h.disableUntil

\* time.Now().Before(disableUntil) is strict
IsDisabled(h, t) ==
    h.isPermanentlyDisabled \/ t < h.disableUntil

NoCall == [op |-> "none", at |-> 0, pre |-> <<>>, out |-> FALSE, prev |-> "none"]

(* ------------------------------ selectors ------------------------------ *)
\* an item of a selector: a translator with its weights and failover handler
\* (limiter: whether RateLimitConfig.Enabled gave it a rate.Limiter)
NewCommonTranslator(name, weight, conf, limited) ==
    [name |-> name,
     configWeight |-> weight,
     currentWeight |-> 0,
     limiter |-> limited,
     failoverHandler |-> NewGeneralFailoverHandler(conf)]

\* an item that counts as disabled only once it is permanently disabled
ItemIsDisabled_PermanentOnly(item, t) ==
    item.failoverHandler.isPermanentlyDisabled

\* CommonTranslator.IsDisabled
ItemIsDisabled(item, t) == IsDisabled(item.failoverHandler, t)

\* a comparison that lets a later item take over on equal weights
IsNewMax_TieToLater(acc, w) ==
    acc.selectedIndex = -1 \/ w >= acc.maxCurrentWeight

\* the item just raised to current weight w becomes the selected one: it is
\* the first one scanned, or strictly above the maximum so far
IsNewMax(acc, w) ==
    acc.selectedIndex = -1 \/ w > acc.maxCurrentWeight

\* the loop body that also counts disabled items in
WRRStep_NoSkip(acc, i, t) ==
    LET w == acc.items[i].currentWeight + acc.items[i].configWeight
        its == [acc.items EXCEPT ![i].currentWeight = w]
    IN  IF IsNewMax(acc, w)
        THEN [items |-> its, selectedIndex |-> i, maxCurrentWeight |-> w]
        ELSE [acc EXCEPT !.items = its]

\* one iteration of the loop of WeightedRoundRobinSelector.Select over item i
WRRStep(acc, i, t) ==
    IF ItemIsDisabled(acc.items[i], t)
    THEN acc
    ELSE LET w == acc.items[i].currentWeight + acc.items[i].configWeight
             its == [acc.items EXCEPT ![i].currentWeight = w]
         IN  IF IsNewMax(acc, w)
             THEN [items |-> its, selectedIndex |-> i, maxCurrentWeight |-> w]
             ELSE [acc EXCEPT !.items = its]

RECURSIVE WRRScan(_, _, _)
\* the loop of WeightedRoundRobinSelector.Select from item i on
WRRScan(acc, i, t) ==
    IF i > Len(acc.items) THEN acc
    ELSE WRRScan(WRRStep(acc, i, t), i + 1, t)

\* takes the selected item's own weight off instead of the registry's total
WRRSelect_SubtractOwnWeight(its, total, t) ==
    IF Len(its) = 0
    THEN [items |-> its, index |-> -1, err |-> "no items available in selector"]
    ELSE LET r == WRRScan([items |-> its, selectedIndex |-> -1,
                           maxCurrentWeight |-> 0], 1, t)
         IN  IF r.selectedIndex = -1
             THEN [items |-> r.items, index |-> -1, err |-> "no available item"]
             ELSE [items |-> [r.items EXCEPT ![r.selectedIndex].currentWeight =
                                @ - r.items[r.selectedIndex].configWeight],
                   index |-> r.selectedIndex, err |-> "nil"]

\* WeightedRoundRobinSelector.Select at time t: the items afterwards, the
\* index of the returned item (-1 when none) and the error
WRRSelect(its, total, t) ==
    IF Len(its) = 0
    THEN [items |-> its, index |-> -1, err |-> "no items available in selector"]
    ELSE LET r == WRRScan([items |-> its, selectedIndex |-> -1,
                           maxCurrentWeight |-> 0], 1, t)
         IN  IF r.selectedIndex = -1
             THEN [items |-> r.items, index |-> -1, err |-> "no available item"]
             ELSE [items |-> [r.items EXCEPT ![r.selectedIndex].currentWeight =
                                                @ - total],
                   index |-> r.selectedIndex, err |-> "nil"]

\* returns the last item that is not disabled
FallbackSelect_LastEnabled(its, total, t) ==
    IF Len(its) = 0
    THEN [items |-> its, index |-> -1,
          err |-> "fallback selector: no items configured"]
    ELSE LET ok == {i \in 1..Len(its) : ~ItemIsDisabled(its[i], t)}
         IN  IF ok = {}
             THEN [items |-> its, index |-> -1,
                   err |-> "fallback selector: all configured items are disabled"]
             ELSE [items |-> its,
                   index |-> CHOOSE i \in ok : \A j \in ok : j <= i,
                   err |-> "nil"]

\* FallbackSelector.Select at time t
FallbackSelect(its, total, t) ==
    IF Len(its) = 0
    THEN [items |-> its, index |-> -1,
          err |-> "fallback selector: no items configured"]
    ELSE LET ok == {i \in 1..Len(its) : ~ItemIsDisabled(its[i], t)}
         IN  IF ok = {}
             THEN [items |-> its, index |-> -1,
                   err |-> "fallback selector: all configured items are disabled"]
             ELSE [items |-> its,
                   index |-> CHOOSE i \in ok : \A j \in ok : i <= j,
                   err |-> "nil"]

\* Selector.Select of the implementation chosen at construction
Select(type, its, total, t) ==
    IF type = "wrr" THEN WRRSelect(its, total, t)
    ELSE FallbackSelect(its, total, t)

\* the IsDisabled answers of the items at time t
Scan(its, t) == [i \in 1..Len(its) |-> ItemIsDisabled(its[i], t)]

(* ----------------- selector specification: SpecSel --------------------- *)
\* failover configuration of the items of the selector specification: one
\* failure disables an item, one success enables it again
SelItemFailover ==
    [MaxFailures |-> 1, CooldownBaseSec |-> 1, MaxDisableCycles |-> 1]

NoSelect == [op |-> "none", pre |-> <<>>, scan |-> <<>>, index |-> -1,
             err |-> "nil"]

\* the selector variables of a specification that has no selector
SelIdle ==
    /\ selType = "none"
    /\ items = <<>>
    /\ totalConfigWeight = 0
    /\ started = FALSE
    /\ sel = NoSelect
    /\ hist = <<>>
    /\ slid = FALSE
    /\ everDisabled = FALSE
    /\ nSkew = 0

\* a *TranslateResponse is the empty sequence (nil) or holds one response
NilResp == <<>>

\* the locals of a call of TranslateService.Translate at its entry, and
\* what it has done so far: the calls of translator.Translate
\* (invocations), the calls of ts.translate (attempts), the calls of
\* time.Sleep (sleeps) and the time of the last one (sleptAt)
IdleCaller ==
    [pc |-> "idle", retry |-> 0, cur |-> -1, resp |-> NilResp, err |-> "nil",
     wake |-> 0, invocations |-> 0, selectFailed |-> FALSE,
     attempts |-> 0, sleeps |-> 0, sleptAt |-> 0]

\* the service variables of a specification that has no service
SvcIdle ==
    /\ svc = [maxmiumRetry |-> 0, retryCooldown |-> 1]
    /\ callers = EmptyBag
    /\ result = IdleCaller
    /\ nCalls = 0
    /\ everSucceeded = FALSE

\* the handler variables of a specification that has no separate handler
FHIdle ==
    /\ gfh = NewGeneralFailoverHandler(DefaultFailoverConfig)
    /\ call = NoCall
    /\ nFail = 0
    /\ coolSeen = FALSE
    /\ coolAtSuccess = ZeroTime

\* a goroutine that is not inside a call of the handler
IdleProc ==
    [op |-> "none", pc |-> "idle", tmp |-> 0, rst |-> FALSE, t |-> 0,
     ret |-> FALSE, seqRet |-> FALSE]

\* the variables of the handler's goroutines in a specification without them
MuIdle ==
    /\ mu = 0
    /\ procs = <<>>
    /\ lin = NewGeneralFailoverHandler(DefaultFailoverConfig)
    /\ nOps = 0

\* a nil *rate.Limiter
NoLimiter == [enabled |-> FALSE, burst |-> 0, refill |-> 0, tokens |-> 0]

\* a goroutine that is not inside CommonTranslator.Translate
IdleWaiter ==
    [pc |-> "idle", deadline |-> 0, ctx |-> 0, enter |-> 0, err |-> "nil",
     blocked |-> FALSE, at |-> 0]

\* the limiter variables of a specification without a limiter
LimIdle ==
    /\ limiter = NoLimiter
    /\ ctTimeout = 1
    /\ acq = <<>>

\* newGeneralLanguageDetector
NewGeneralLanguageDetector(conf, limited) ==
    [limiter |-> limited, failoverHandler |-> NewGeneralFailoverHandler(conf)]

NoDetect == [op |-> "none", lang |-> "", confidence |-> 0, pre |-> <<>>,
             err |-> "nil"]

\* the detector variables of a specification without a detector
DetIdle ==
    /\ det = NewGeneralLanguageDetector(DefaultFailoverConfig, FALSE)
    /\ detCall = NoDetect

\* the settings a reload replaces, as they are in force
InForce == [logLevel |-> logLevel,
            translateService |-> bot.translateService,
            allowedChats |-> bot.allowedChats,
            messageSettings |-> bot.messageSettings]

\* handleSignals waiting for a signal
NoReload == [pc |-> "idle", cfg |-> <<>>, service |-> 0, before |-> <<>>,
             failed |-> "none"]

\* the reload variables of a specification without a bot
RlIdle ==
    /\ logLevel = "info"
    /\ bot = [translateService |-> 0, allowedChats |-> {},
              messageSettings |-> FALSE]
    /\ sig = NoReload

\* metrics.MetricMessages after initMessageMetrics
NoMessages == [pending |-> 0, processing |-> 0, unauthorized |-> 0,
               failed |-> 0, processed |-> 0]

\* ServeBot waiting for an update
ServeRecv == [pc |-> "recv", chat |-> 0]

\* the bot variables of a specification without a bot
BotIdle ==
    /\ workerPoolSize = 1
    /\ qLen = 0
    /\ serve = ServeRecv
    /\ msgs = <<>>
    /\ gauge = NoMessages
    /\ nReload = 0

\* NewCommonTranslator: upMetric.WithLabelValues(name).Set(1)
UpIdle == upMetric = 1

\* NewTranslateServiceConfig: the default translator configuration
NewDefaultTranslatorConfig == [Weight |-> 0, Failover |-> DefaultFailoverConfig]

\* no translator has been registered
NoOptions == <<>>

\* the configuration variables of a specification that registers nothing
ConfIdle ==
    /\ dtc = NewDefaultTranslatorConfig
    /\ names = <<>>
    /\ added = NoOptions
    /\ initErr = "nil"

\* a goroutine that is not in Select
IdleSelProc ==
    [pc |-> "idle", i |-> 0, selectedIndex |-> -1, maxCurrentWeight |-> 0,
     seen |-> <<>>, index |-> -1, err |-> "nil", overlap |-> FALSE]

\* the variables of concurrent selection in a specification without it
WmIdle ==
    /\ selMu = 0
    /\ selProcs = <<>>
    /\ seqWeights = <<>>
    /\ selHist = <<>>
    /\ nSelects = 0

\* a goroutine that is not in CommonTranslator.Translate
IdleInvoke == [pc |-> "idle", err |-> "nil", steps |-> <<>>]

\* the invoke path variables of a specification without them
InvIdle ==
    /\ invProcs = <<>>
    /\ nInv = 0

\* the variables of the other specifications, at rest
NoRun == [index |-> -1, calls |-> 0]

SmoothIdle ==
    /\ run = NoRun
    /\ win = <<>>

\* a goroutine outside the calls that lock
IdleLockProc ==
    [op |-> "none", item |-> 0, phase |-> "idle", i |-> 0, n |-> 0,
     selectedIndex |-> -1, hold |-> FALSE]

LockIdle ==
    /\ locks = [sel |-> 0, fo |-> <<>>, w |-> <<>>]
    /\ lkReg = [type |-> "none", disabled |-> <<>>]
    /\ lkProcs = <<>>
    /\ nLk = 0

ExtIdle ==
    /\ MuIdle /\ LimIdle /\ DetIdle /\ RlIdle /\ BotIdle /\ UpIdle
    /\ ConfIdle /\ WmIdle /\ InvIdle /\ SmoothIdle /\ LockIdle

\* NewWeightedRoundRobinSelector / NewFallbackSelector
InitSel ==
    /\ now = 1
    /\ FHIdle
    /\ selType \in {"wrr", "fallback"}
    /\ items = <<>>
    /\ totalConfigWeight = 0
    /\ started = FALSE
    /\ sel = NoSelect
    /\ hist = <<>>
    /\ slid = FALSE
    /\ everDisabled = FALSE
    /\ nSkew = 0
    /\ SvcIdle
    /\ ExtIdle

RECURSIVE SumConfigWeight(_)
\* the sum of the configured weights of the items
SumConfigWeight(its) ==
    IF its = <<>> THEN 0
    ELSE its[1].configWeight + SumConfigWeight(Tail(its))

\* a total that counts the items instead of adding up their weights
AddItemTotal_CountsItems(total, w) == total + 1

\* AddItem: s.totalConfigWeight += item.GetConfigWeight()
AddItemTotal(total, w) == total + w

\* AddItem: only while the registry is being built
SelAddItem ==
    /\ ~started
    /\ Len(items) < MaxItems
    /\ \E w \in 1..MaxWeight :
          /\ SumConfigWeight(items) + w <= MaxTotalWeight
          /\ items' = Append(items,
                        NewCommonTranslator(Len(items) + 1, w, SelItemFailover,
                                            FALSE))
          /\ totalConfigWeight' = IF selType = "wrr"
                                  THEN AddItemTotal(totalConfigWeight, w)
                                  ELSE totalConfigWeight
    /\ UNCHANGED <<now, fhVars, extVars, selType, started, sel, hist, slid,
                   everDisabled, nSkew, svcVars>>

\* a call of Select of the selector, and what it does to the selector
SelectCall ==
    LET r == Select(selType, items, totalConfigWeight, now)
        skipped == \E i \in 1..Len(items) : ItemIsDisabled(items[i], now)
    IN  /\ skipped => nSkew < MaxSkewSelects
        /\ started' = TRUE
        /\ items' = r.items
        /\ sel' = [op |-> "Select", pre |-> items, scan |-> Scan(items, now),
                   index |-> r.index, err |-> r.err]
        /\ nSkew' = IF skipped THEN nSkew + 1 ELSE nSkew
        /\ IF everDisabled \/ selType # "wrr" \/ r.index = -1
           THEN hist' = <<>> /\ slid' = slid
           ELSE IF Len(hist) < totalConfigWeight
                THEN hist' = Append(hist, r.index) /\ slid' = slid
                ELSE hist' = Append(Tail(hist), r.index) /\ slid' = TRUE
        /\ UNCHANGED <<now, fhVars, selType, totalConfigWeight, everDisabled,
                       svcVars>>

SelSelect == SelectCall /\ UNCHANGED extVars

\* a request on item i failed: what onFailure does to the selector's item
ItemOnFailure ==
    \E i \in 1..Len(items) :
        /\ ~items[i].failoverHandler.isPermanentlyDisabled
        /\ items' = [items EXCEPT ![i].failoverHandler =
                                     OnFailureState(@, now)]
        /\ everDisabled' = (everDisabled \/ ItemIsDisabled(items'[i], now))
        /\ hist' = IF everDisabled' THEN <<>> ELSE hist
        /\ UNCHANGED <<now, fhVars, selType, totalConfigWeight, started, sel,
                       slid, nSkew, svcVars>>

\* a request on item i failed: CommonTranslator.onFailure
SelItemOnFailure == ItemOnFailure /\ UNCHANGED extVars

\* a request on item i succeeded: what onSuccess does to the selector's item
ItemOnSuccess ==
    \E i \in 1..Len(items) :
        /\ items' = [items EXCEPT ![i].failoverHandler = OnSuccess(@)]
        /\ UNCHANGED <<now, fhVars, selType, totalConfigWeight, started, sel,
                       hist, slid, everDisabled, nSkew, svcVars>>

\* a request on item i succeeded: CommonTranslator.onSuccess
SelItemOnSuccess == ItemOnSuccess /\ UNCHANGED extVars

NextSel == SelAddItem \/ SelSelect \/ SelItemOnFailure \/ SelItemOnSuccess

SpecSel == InitSel /\ [][NextSel]_vars

(* ------------------------ claims on the selectors ---------------------- *)
\* the number of entries of the sequence h equal to x
Occurrences(h, x) == Cardinality({k \in 1..Len(h) : h[k] = x})

\* C1: WRR fairness. With no item ever disabled, every window of
\* W = totalConfigWeight consecutive Select calls, wherever it starts,
\* contains item i exactly configWeight(i) times.
C1_WRRFairness ==
    (selType = "wrr" /\ ~everDisabled /\ Len(items) > 0
       /\ Len(hist) = totalConfigWeight) =>
        \A i \in 1..Len(items) : Occurrences(hist, i) = items[i].configWeight

C1_Witness ==
    /\ selType = "wrr"
    /\ ~everDisabled
    /\ slid
    /\ Len(items) = 3
    /\ items[1].configWeight = 1
    /\ items[2].configWeight = 3
    /\ items[3].configWeight = 2
    /\ Len(hist) = 6
    /\ hist[1] # 2

\* C5: fallback priority. FallbackSelector.Select returns the first item in
\* insertion order whose IsDisabled is false; it fails exactly when the
\* registry is empty or every item is disabled; it changes no current
\* weight. With [A(disabled), B, C] it returns B, and C once B is disabled too.
C5_FallbackPriority ==
    (selType = "fallback" /\ sel.op = "Select") =>
        LET n == Len(sel.scan)
            ok == {i \in 1..n : ~sel.scan[i]}
        IN  /\ (sel.err # "nil") <=> (n = 0 \/ ok = {})
            /\ sel.err # "nil" => sel.index = -1
            /\ sel.err = "nil" =>
                   /\ sel.index \in ok
                   /\ \A j \in ok : sel.index <= j
            /\ sel.scan = <<TRUE, FALSE, FALSE>> => sel.index = 2
            /\ sel.scan = <<TRUE, TRUE, FALSE>> => sel.index = 3
            /\ \A i \in 1..n :
                   items[i].currentWeight = sel.pre[i].currentWeight

C5_Witness ==
    /\ selType = "fallback"
    /\ sel.op = "Select"
    /\ sel.scan = <<TRUE, TRUE, FALSE>>
    /\ sel.index = 3
    /\ nSkew = 2

\* C6: WeightedRoundRobinSelector.Select fails exactly when the registry is
\* empty or every item answered IsDisabled = true in the scan; otherwise it
\* returns an item that answered false.
C6_WRRErrorIff ==
    (selType = "wrr" /\ sel.op = "Select") =>
        LET n == Len(sel.scan) IN
        /\ (sel.err # "nil") <=> (n = 0 \/ \A i \in 1..n : sel.scan[i])
        /\ sel.err # "nil" => sel.index = -1
        /\ sel.err = "nil" => (sel.index \in 1..n /\ ~sel.scan[sel.index])

C6_Witness ==
    /\ selType = "wrr"
    /\ sel.op = "Select"
    /\ sel.scan = <<TRUE, FALSE, TRUE>>
    /\ sel.index = 2
    /\ sel.pre[1].currentWeight > sel.pre[2].currentWeight + sel.pre[2].configWeight

\* C14: WRR tie-break determinism. With no item disabled, Select returns the
\* first-registered item among those whose raised current weight
\* (currentWeight + configWeight) is the greatest, so the sequence depends on
\* insertion order and weights only; with weights [1,1] the first Select
\* returns the first-registered item and consecutive Selects alternate.
C14_TieBreak ==
    (selType = "wrr" /\ sel.op = "Select" /\ Len(sel.scan) > 0
       /\ \A i \in 1..Len(sel.scan) : ~sel.scan[i]) =>
        LET n == Len(sel.pre)
            raised(i) == sel.pre[i].currentWeight + sel.pre[i].configWeight
            best == {i \in 1..n : \A j \in 1..n : raised(j) <= raised(i)}
        IN  /\ sel.index \in best
            /\ \A j \in best : sel.index <= j
            /\ (~everDisabled /\ n = 2 /\ sel.pre[1].configWeight = 1
                  /\ sel.pre[2].configWeight = 1) =>
                   /\ Len(hist) >= 1
                   /\ ~slid => hist[1] = 1
                   /\ Len(hist) = 2 => hist[1] # hist[2]
                   /\ sel.index = hist[Len(hist)]

C14_Witness ==
    /\ selType = "wrr"
    /\ ~everDisabled
    /\ Len(items) = 2
    /\ items[1].configWeight = 1
    /\ items[2].configWeight = 1
    /\ slid
    /\ hist = <<2, 1>>
    /\ sel.index = 1
    /\ sel.pre[1].currentWeight + 1 = sel.pre[2].currentWeight + 1

\* C29: on every successful WRR Select the current weight of every item
\* that is not disabled is first increased by its own configWeight, and
\* then the current weight of the selected item is decreased by the
\* registry's total configured weight: the sum over all registered items,
\* as added up at registration, the items disabled at the call included.
C29_SubtractRegistryTotal ==
    (selType = "wrr" /\ sel.op = "Select" /\ sel.index # -1) =>
        /\ totalConfigWeight = SumConfigWeight(sel.pre)
        /\ \A i \in 1..Len(items) :
              items[i].currentWeight =
                  sel.pre[i].currentWeight
                  + (IF sel.scan[i] THEN 0 ELSE sel.pre[i].configWeight)
                  - (IF i = sel.index THEN SumConfigWeight(sel.pre) ELSE 0)

\* a WRR Select has returned an item while another item, of weight 2 or
\* more, was disabled
C29_Witness ==
    /\ selType = "wrr"
    /\ sel.op = "Select"
    /\ sel.index # -1
    /\ \E i \in 1..Len(items) : sel.scan[i] /\ sel.pre[i].configWeight >= 2


RECURSIVE SumCurrentWeight(_)
\* the sum of the current weights of the items
SumCurrentWeight(its) ==
    IF its = <<>> THEN 0
    ELSE its[1].currentWeight + SumCurrentWeight(Tail(its))

C37_SelectFrame ==
    [][(selType = "wrr" /\ started') =>
          /\ totalConfigWeight' = totalConfigWeight
          /\ Len(items') = Len(items)
          /\ \A i \in 1..Len(items) :
                /\ items'[i].name = items[i].name
                /\ items'[i].configWeight = items[i].configWeight
                /\ ItemIsDisabled(items[i], now) =>
                      items'[i].currentWeight = items[i].currentWeight]_vars

\* a Select returned one item and skipped a disabled one, which kept a
\* current weight other than 0
C37_Witness ==
    /\ selType = "wrr"
    /\ sel.op = "Select"
    /\ sel.index # -1
    /\ \E i \in 1..Len(items) :
          /\ sel.scan[i]
          /\ sel.pre[i].currentWeight # 0
          /\ items[i].currentWeight = sel.pre[i].currentWeight

\* C31 as stated: right after a successful Select of the round-robin
\* selector the returned item's current weight is strictly below 0
C31_SelectedBelowZero ==
    (selType = "wrr" /\ sel.op = "Select" /\ sel.index # -1) =>
        items[sel.index].currentWeight < 0

\* C31: a successful Select of the round-robin selector returns an item
\* whose raised current weight no enabled item exceeds, and leaves it
\* totalConfigWeight below that: never above what it had before the call,
\* and strictly below when the registry holds another item. It need not be
\* below 0.
C31_SelectedPushedDown ==
    (selType = "wrr" /\ sel.op = "Select" /\ sel.index # -1) =>
        LET x == sel.index
            raised == sel.pre[x].currentWeight + sel.pre[x].configWeight
        IN  /\ items[x].currentWeight = raised - totalConfigWeight
            /\ items[x].currentWeight <= sel.pre[x].currentWeight
            /\ Len(items) >= 2 =>
                  items[x].currentWeight < sel.pre[x].currentWeight
            /\ \A j \in 1..Len(items) :
                  (j # x /\ ~sel.scan[j]) => items[j].currentWeight <= raised

\* with weights 1 and 3 a call returned the second item and left it above 0
C31_Witness ==
    /\ selType = "wrr"
    /\ sel.op = "Select"
    /\ Len(items) = 2
    /\ items[1].configWeight = 1
    /\ items[2].configWeight = 3
    /\ sel.index = 2
    /\ items[2].currentWeight = 1
    /\ ~everDisabled

(* ------------------ handler specification: SpecFH ---------------------- *)
InitFH ==
    /\ now = 1
    /\ \E conf \in FailoverConfigs : gfh = NewGeneralFailoverHandler(conf)
    /\ call = NoCall
    /\ nFail = 0
    /\ coolSeen = FALSE
    /\ coolAtSuccess = ZeroTime
    /\ SelIdle
    /\ SvcIdle
    /\ ExtIdle

FHOnFailure ==
    /\ gfh.disableCycleCount < gfh.failoverConfig.MaxDisableCycles + ExtraCycles
    /\ gfh' = OnFailureState(gfh, now)
    /\ call' = [op |-> "OnFailure", at |-> now, pre |-> gfh,
                out |-> OnFailureResult(gfh), prev |-> call.op]
    /\ nFail' = IF nFail >= 0 THEN nFail + 1 ELSE nFail
    /\ coolSeen' = FALSE
    /\ coolAtSuccess' = ZeroTime
    /\ UNCHANGED <<now, selVars, svcVars, extVars>>

FHOnSuccess ==
    /\ gfh' = OnSuccess(gfh)
    /\ call' = [op |-> "OnSuccess", at |-> now, pre |-> gfh,
                out |-> FALSE, prev |-> call.op]
    /\ nFail' = -1
    /\ coolSeen' = FALSE
    /\ coolAtSuccess' = IF now < gfh.disableUntil THEN gfh.disableUntil
                        ELSE coolAtSuccess
    /\ UNCHANGED <<now, selVars, svcVars, extVars>>

FHIsDisabled ==
    /\ call' = [op |-> "IsDisabled", at |-> now, pre |-> gfh,
                out |-> IsDisabled(gfh, now), prev |-> call.op]
    /\ coolSeen' = (coolSeen \/
                    (IsDisabled(gfh, now) /\ ~gfh.isPermanentlyDisabled))
    /\ UNCHANGED <<now, gfh, nFail, coolAtSuccess, selVars, svcVars,
                   extVars>>

Tick ==
    /\ now < MaxNow
    /\ now' = now + 1
    /\ UNCHANGED <<fhVars, selVars, svcVars, extVars>>

NextFH == FHOnFailure \/ FHOnSuccess \/ FHIsDisabled \/ Tick

SpecFH == InitFH /\ [][NextFH]_vars

(* --------------------- claims on the failover handler ------------------ *)
\* C2: failover escalation. Counting only OnFailure calls on a fresh handler
\* (no OnSuccess so far), the (k*F)-th call, 1 <= k < C, leaves
\* disableUntil = (time of the call) + k*B and the handler not permanently
\* disabled; the (C*F)-th call sets isPermanentlyDisabled. With the default
\* configuration (3, 120, 6) the cooldowns are 120, 240, ..., 600 seconds at
\* failures 3, 6, ..., 15 and failure 18 disables permanently.
C2_Escalation ==
    LET F == gfh.failoverConfig.MaxFailures
        B == gfh.failoverConfig.CooldownBaseSec
        C == gfh.failoverConfig.MaxDisableCycles
        k == nFail \div F
    IN  /\ (call.op = "OnFailure" /\ nFail > 0 /\ nFail % F = 0) =>
            /\ k < C => /\ gfh.disableUntil = call.at + k * B
                        /\ ~gfh.isPermanentlyDisabled
                        /\ call.out
            /\ k = C => /\ gfh.isPermanentlyDisabled
                        /\ ~call.pre.isPermanentlyDisabled
                        /\ call.out
        /\ (call.op = "OnFailure" /\ gfh.failoverConfig = DefaultFailoverConfig) =>
            /\ nFail \in {3, 6, 9, 12, 15} =>
                   gfh.disableUntil - call.at = 40 * nFail
            /\ nFail = 18 => gfh.isPermanentlyDisabled
            /\ (nFail >= 0 /\ nFail < 18) => ~gfh.isPermanentlyDisabled

C2_Witness ==
    /\ call.op = "OnFailure"
    /\ gfh.failoverConfig = DefaultFailoverConfig
    /\ nFail = 18
    /\ gfh.isPermanentlyDisabled
    /\ gfh.disableUntil = call.at + 600

\* C7: OnFailure adds one to failures; when failures thereby reaches
\* MaxFailures it is reset to 0 and both currentCooldownMultiplier and
\* disableCycleCount grow by one, a cooldown is started or the permanent flag
\* is set, and the call returns true; otherwise it returns false and leaves
\* currentCooldownMultiplier, disableCycleCount, disableUntil and
\* isPermanentlyDisabled as they were.
C7_OnFailureStep ==
    call.op = "OnFailure" =>
        LET p == call.pre
            conf == p.failoverConfig
        IN  IF p.failures + 1 = conf.MaxFailures
            THEN /\ gfh.failures = 0
                 /\ gfh.currentCooldownMultiplier = p.currentCooldownMultiplier + 1
                 /\ gfh.disableCycleCount = p.disableCycleCount + 1
                 /\ call.out = TRUE
                 /\ \/ gfh.isPermanentlyDisabled
                    \/ gfh.disableUntil =
                         call.at + gfh.currentCooldownMultiplier * conf.CooldownBaseSec
            ELSE /\ gfh.failures = p.failures + 1
                 /\ call.out = FALSE
                 /\ gfh.currentCooldownMultiplier = p.currentCooldownMultiplier
                 /\ gfh.disableCycleCount = p.disableCycleCount
                 /\ gfh.disableUntil = p.disableUntil
                 /\ gfh.isPermanentlyDisabled = p.isPermanentlyDisabled

C7_Witness ==
    /\ call.op = "OnFailure"
    /\ call.out
    /\ call.pre.failures > 0
    /\ gfh.isPermanentlyDisabled
    /\ ~call.pre.isPermanentlyDisabled

C9_IsDisabled ==
    /\ call.op = "IsDisabled" =>
           /\ call.out = (call.pre.isPermanentlyDisabled
                            \/ call.at < call.pre.disableUntil)
           /\ gfh = call.pre
    /\ (coolSeen /\ call.op = "IsDisabled" /\ call.at >= gfh.disableUntil
           /\ ~gfh.isPermanentlyDisabled) => ~call.out

C9_Witness ==
    /\ coolSeen
    /\ call.op = "IsDisabled"
    /\ ~call.out
    /\ call.at = gfh.disableUntil

\* C10: OnSuccess leaves disableUntil unchanged; called inside a cooldown
\* window, IsDisabled is true right after it and every IsDisabled call before
\* the clock reaches that disableUntil returns true.
C10_SuccessKeepsCooldown ==
    /\ call.op = "OnSuccess" =>
           /\ gfh.disableUntil = call.pre.disableUntil
           /\ call.at < call.pre.disableUntil => IsDisabled(gfh, call.at)
    /\ (call.op = "IsDisabled" /\ call.at < coolAtSuccess) => call.out

C10_Witness ==
    /\ call.op = "IsDisabled"
    /\ call.prev = "OnSuccess"
    /\ call.at < coolAtSuccess
    /\ call.out
    /\ gfh.failures = 0 /\ gfh.disableCycleCount = 0
    /\ ~gfh.isPermanentlyDisabled


\* C35: between the operations of a handler with maxFailures >= 1 the count
\* of failures is at least 0 and at most maxFailures - 1, and
\* currentCooldownMultiplier equals disableCycleCount
C35_CountersInRange ==
    /\ gfh.currentCooldownMultiplier = gfh.disableCycleCount
    /\ gfh.failoverConfig.MaxFailures >= 1 =>
          /\ gfh.failures >= 0
          /\ gfh.failures <= gfh.failoverConfig.MaxFailures - 1

\* a handler that went through one disable cycle is one failure short of
\* the threshold again
C35_Witness ==
    /\ gfh.failoverConfig.MaxFailures = 2
    /\ gfh.failures = 1
    /\ gfh.disableCycleCount = 1
    /\ gfh.currentCooldownMultiplier = 1
    /\ call.op = "OnFailure"

\* C33: the end of the cooldown of a handler is never moved to an earlier
\* time, by any OnSuccess or OnFailure
C33_CooldownNeverShortened ==
    [][gfh'.disableUntil >= gfh.disableUntil]_vars

(* --------------- dispatch service specification: SpecSvc --------------- *)
\* failover configurations of the backends of the service
SvcFailoverConfigs ==
    [MaxFailures : 1..MaxSvcFailures,
     CooldownBaseSec : {1},
     MaxDisableCycles : 1..MaxSvcDisableCycles]
    \cup {DefaultFailoverConfig}

\* the weights of the backends of the service, by number of backends
SvcWeights == {<<1>>, <<1, 1>>, <<3, 1>>, <<1, 2, 1>>}

\* NewTranslateService: the selector is built and every translator is added
InitSvc ==
    /\ now = 1
    /\ FHIdle
    /\ selType \in {"wrr", "fallback"}
    /\ \E ws \in SvcWeights, conf \in SvcFailoverConfigs, limited \in BOOLEAN :
          /\ Len(ws) <= MaxSvcItems
          /\ items = [i \in 1..Len(ws) |->
                          NewCommonTranslator(i, ws[i], conf, limited)]
          /\ totalConfigWeight = IF selType = "wrr"
                                 THEN SumConfigWeight(items) ELSE 0
    /\ started = TRUE
    /\ sel = NoSelect
    /\ hist = <<>>
    /\ slid = FALSE
    /\ everDisabled = FALSE
    /\ nSkew = 0
    /\ svc \in [maxmiumRetry : 0..MaxRetry, retryCooldown : 1..MaxRetryCooldown]
    /\ callers = EmptyBag
    /\ result = IdleCaller
    /\ nCalls = 0
    /\ everSucceeded = FALSE
    /\ ExtIdle

selRest == <<selType, totalConfigWeight, started, sel, hist, slid,
             everDisabled>>

\* a sleep that grows with the number of the retry
SleepUntil_Escalating(cl, conf, t) == t + (cl.retry + 1) * conf.retryCooldown

\* time.Sleep(time.Duration(ts.retryCooldown) * time.Second) called at
\* time t: the time at which it returns
SleepUntil(cl, conf, t) == t + conf.retryCooldown

\* a loop that allows one retry more than maxmiumRetry
TranslateCheck_OneMoreRetry(cl, conf, t) ==
    IF cl.err = "nil" THEN [cl EXCEPT !.pc = "done"]
    ELSE IF cl.retry > conf.maxmiumRetry THEN [cl EXCEPT !.pc = "done"]
    ELSE IF cl.resp = NilResp
         THEN [cl EXCEPT !.pc = "panic", !.retry = @ + 1]
         ELSE [cl EXCEPT !.pc = "sleep", !.retry = @ + 1,
                         !.wake = SleepUntil(cl, conf, t),
                         !.sleeps = @ + 1, !.sleptAt = t]

\* the loop of Translate once translate has returned resp and err: return,
\* or count the retry, log resp.TranslatorName and sleep
TranslateCheck(cl, conf, t) ==
    IF cl.err = "nil" THEN [cl EXCEPT !.pc = "done"]
    ELSE IF cl.retry >= conf.maxmiumRetry THEN [cl EXCEPT !.pc = "done"]
    ELSE IF cl.resp = NilResp
         THEN [cl EXCEPT !.pc = "panic", !.retry = @ + 1]
         ELSE [cl EXCEPT !.pc = "sleep", !.retry = @ + 1,
                         !.wake = SleepUntil(cl, conf, t),
                         !.sleeps = @ + 1, !.sleptAt = t]

\* the call old (one of the bag, or none at the entry of Translate) goes on
\* as new, or ends with new as its result
Continue(old, new) ==
    LET rest == IF old.pc = "idle" THEN callers
                ELSE callers (-) SetToBag({old})
    IN  IF new.pc \in {"done", "panic"}
        THEN callers' = rest /\ result' = new
        ELSE callers' = rest (+) SetToBag({new}) /\ result' = result

\* one attempt of the call cl, up to the limiter wait or the call of the
\* backend instance: translate calls Select; on a selection error it returns
\* resp = nil and the loop of Translate goes on; otherwise
\* translator.Translate is called, which waits for its limiter if it has one
Attempt(cl) ==
    LET r == Select(selType, items, totalConfigWeight, now)
        skewed == /\ selType = "wrr"
                  /\ r.err = "nil"
                  /\ \E i \in 1..Len(items) : ItemIsDisabled(items[i], now)
    IN  /\ skewed => nSkew < MaxSkewSelects
        /\ nSkew' = IF skewed THEN nSkew + 1 ELSE nSkew
        /\ items' = r.items
        /\ Continue(cl,
               IF r.err # "nil"
               THEN TranslateCheck([cl EXCEPT !.cur = -1, !.resp = NilResp,
                                              !.err = "select", !.wake = 0,
                                              !.selectFailed = TRUE,
                                              !.attempts = @ + 1,
                                              !.sleptAt = 0],
                                   svc, now)
               ELSE [cl EXCEPT !.pc = IF items[r.index].limiter THEN "wait"
                                     ELSE "instance",
                               !.cur = r.index,
                               !.resp = NilResp, !.err = "nil", !.wake = 0,
                               !.invocations = @ + 1,
                               !.attempts = @ + 1, !.sleptAt = 0])

\* a message handler calls TranslateService.Translate: retry := 0 and the
\* first attempt
SvcTranslate ==
    /\ nCalls < MaxCalls
    /\ nCalls' = nCalls + 1
    /\ Attempt(IdleCaller)
    /\ UNCHANGED <<now, fhVars, extVars, selRest, svc, everSucceeded>>

\* time.Sleep(retryCooldown) is over: the next attempt
SvcRetry ==
    \E cl \in BagToSet(callers) :
        /\ cl.pc = "sleep"
        /\ now >= cl.wake
        /\ Attempt(cl)
        /\ UNCHANGED <<now, fhVars, extVars, selRest, svc, nCalls, everSucceeded>>

\* a failed wait that is counted against the backend like a failed request
WaitFailed_CountsFailure(its, i, t) ==
    [its EXCEPT ![i].failoverHandler = OnFailureState(@, t)]

\* the items after the limiter wait of item i has failed: Translate returns
\* "rate limiter wait failed" before the instance is called and before
\* onFailure or onSuccess
WaitFailed(its, i, t) == its

\* limiter.Wait returns: with a token, and the backend instance is called, or
\* with an error once the context deadline fires, and translator.Translate
\* returns it without a report to the failover handler
SvcWaitReturn ==
    \E cl \in BagToSet(callers), ok \in BOOLEAN :
        /\ cl.pc = "wait"
        /\ Continue(cl,
               IF ok THEN [cl EXCEPT !.pc = "instance"]
               ELSE TranslateCheck(
                        [cl EXCEPT !.cur = -1,
                                   !.resp = <<[TranslatorName |-> items[cl.cur].name]>>,
                                   !.err = "wait"],
                        svc, now))
        /\ items' = IF ok THEN items ELSE WaitFailed(items, cl.cur, now)
        /\ UNCHANGED <<now, fhVars, extVars, selRest, nSkew, svc, nCalls,
                       everSucceeded>>

\* the backend instance returns: the translator reports to its failover
\* handler, translate fills in resp.TranslatorName and the loop of Translate
\* goes on
SvcInstanceReturn ==
    \E cl \in BagToSet(callers), ok \in BOOLEAN :
        /\ cl.pc = "instance"
        /\ items' = [items EXCEPT ![cl.cur].failoverHandler =
                        IF ok THEN OnSuccess(@) ELSE OnFailureState(@, now)]
        /\ Continue(cl,
               TranslateCheck(
                   [cl EXCEPT !.cur = -1,
                              !.resp = <<[TranslatorName |-> items[cl.cur].name]>>,
                              !.err = IF ok THEN "nil" ELSE "backend"],
                   svc, now))
        /\ everSucceeded' = (everSucceeded \/ ok)
        /\ UNCHANGED <<now, fhVars, extVars, selRest, nSkew, svc, nCalls>>

NextSvc ==
    SvcTranslate \/ SvcRetry \/ SvcWaitReturn \/ SvcInstanceReturn \/ Tick

SpecSvc == InitSvc /\ [][NextSvc]_vars

(* --------------------- claims on the dispatch service ------------------ *)
\* a call of Translate has ended, by a return or by a panic
Ended == result.pc \in {"done", "panic"}

\* the registry holds one backend and no instance call has succeeded so far
SingleFailingBackend == Len(items) = 1 /\ ~everSucceeded

\* C3 (as claimed): a call of Translate against a single backend that fails
\* on every call returns its error after exactly maxmiumRetry + 1 invocations
\* of the backend, with the backend's name in the response.
C3_RetryExhaustion ==
    (SingleFailingBackend /\ result.pc = "done" /\ result.err # "nil") =>
        /\ result.invocations = svc.maxmiumRetry + 1
        /\ result.resp = <<[TranslatorName |-> items[1].name]>>

\* C3 (amended): the same, for the calls in which no selection failed, that
\* is, the backend was not disabled by its failover handler at any of the
\* selections; such a call does not panic, and a call that is alone on a
\* fresh backend with MaxFailures > maxmiumRetry is such a call.
C3_RetryExhaustionWhileEnabled ==
    (SingleFailingBackend /\ Ended) =>
        /\ ~result.selectFailed =>
              /\ result.pc = "done"
              /\ result.err \in {"backend", "wait"}
              /\ result.retry = svc.maxmiumRetry
              /\ result.invocations = svc.maxmiumRetry + 1
              /\ result.resp = <<[TranslatorName |-> items[1].name]>>
        /\ (nCalls = 1 /\ items[1].failoverHandler.failoverConfig.MaxFailures
                            > svc.maxmiumRetry) => ~result.selectFailed

C3_Witness ==
    /\ SingleFailingBackend
    /\ result.pc = "done"
    /\ ~result.selectFailed
    /\ svc.maxmiumRetry = 2
    /\ items[1].failoverHandler.failoverConfig = DefaultFailoverConfig
    /\ result.invocations = 3
    /\ result.err = "backend"
    /\ ItemIsDisabled(items[1], now)

\* C4: isPermanentlyDisabled is monotonic: no step of the service (a report
\* of a request in flight included) and no passage of time makes it false
\* again once it is true.
C4_PermanentMonotonic ==
    [][\A i \in 1..Len(items) :
          items[i].failoverHandler.isPermanentlyDisabled
              => items'[i].failoverHandler.isPermanentlyDisabled]_vars

\* C11: a selection failure is an ordinary failed attempt. A call whose last
\* attempt failed in Select is asleep until its next attempt with the retry
\* counted, or has returned the selection error with its retries used up; it
\* has not aborted on the nil response of the failed selection.
C11_SelectionFailureIsAttempt ==
    /\ \A cl \in BagToSet(callers) :
          cl.err = "select" => /\ cl.pc = "sleep"
                               /\ cl.retry \in 1..svc.maxmiumRetry
    /\ (Ended /\ result.err = "select") =>
          /\ result.pc = "done"
          /\ result.retry = svc.maxmiumRetry

\* Bot.handleMessage right after Translate has returned resp: it reads
\* resp.TranslatorName before it looks at err
handleMessageReadName(resp) ==
    IF resp = NilResp THEN "panic" ELSE resp[1].TranslatorName

\* C12: a call of Translate that returns an error with its retries used up
\* returns a response that carries the name of the backend tried last, so
\* that the caller reads TranslatorName without failing, whatever failed in
\* the last attempt.
C12_ExhaustionCarriesName ==
    (result.pc = "done" /\ result.err # "nil"
       /\ result.retry = svc.maxmiumRetry) =>
        /\ result.resp # NilResp
        /\ handleMessageReadName(result.resp) \in
               {items[i].name : i \in 1..Len(items)}

\* the scenario of two weighted round-robin backends of weights 3 and 1 with
\* maxFailures = 1, where backend 1 has no failure on its record
TwoBackendScenario ==
    /\ selType = "wrr"
    /\ Len(items) = 2
    /\ items[1].configWeight = 3
    /\ items[2].configWeight = 1
    /\ items[2].failoverHandler.failoverConfig.MaxFailures = 1
    /\ items[1].failoverHandler =
           NewGeneralFailoverHandler(items[1].failoverHandler.failoverConfig)

\* backend i is inside a cooldown window at time t
InCooldown(i, t) ==
    /\ ~items[i].failoverHandler.isPermanentlyDisabled
    /\ t < items[i].failoverHandler.disableUntil

\* C15: two WRR backends of weights 3 and 1, backend 2 failing with
\* maxFailures = 1. The first selection picks backend 1; a single failure of
\* backend 2 starts its cooldown, in which it is disabled, and as long as the
\* cooldown lasts every selection returns backend 1.
C15_TwoBackendScenario ==
    TwoBackendScenario =>
        /\ nCalls = 0 =>
               Select(selType, items, totalConfigWeight, now).index = 1
        /\ (items[2].failoverHandler.disableCycleCount = 1
              /\ ~items[2].failoverHandler.isPermanentlyDisabled) =>
               items[2].failoverHandler.disableUntil > ZeroTime
        /\ InCooldown(2, now) =>
               /\ ItemIsDisabled(items[2], now)
               /\ Select(selType, items, totalConfigWeight, now).index = 1
               /\ Select(selType, items, totalConfigWeight, now).err = "nil"

C15_Witness ==
    /\ TwoBackendScenario
    /\ InCooldown(2, now)
    /\ items[2].failoverHandler.disableCycleCount = 1
    /\ nSkew >= 1
    /\ \E cl \in BagToSet(callers) : cl.pc = "instance" /\ cl.cur = 1
    /\ result.err = "backend"
    /\ result.resp = <<[TranslatorName |-> items[2].name]>>

\* the failover handlers of the items
Handlers(its) == [i \in 1..Len(its) |-> its[i].failoverHandler]

\* C17: an admission error is not a backend error. A step in which the
\* limiter wait of an attempt fails leaves every failover handler as it was,
\* does not call the backend instance and gives the attempt the wait error;
\* a failover handler changes only in a step in which a call of the backend
\* instance of its item returns.
C17_AdmissionErrorDistinct ==
    [][/\ \A cl \in BagToSet(callers) :
             (/\ cl.pc = "wait"
              /\ CopiesIn(cl, callers') < CopiesIn(cl, callers)
              /\ CopiesIn([cl EXCEPT !.pc = "instance"], callers')
                   <= CopiesIn([cl EXCEPT !.pc = "instance"], callers))
             => /\ Handlers(items') = Handlers(items)
                /\ \/ /\ BagCardinality(callers') < BagCardinality(callers)
                      /\ result'.pc = "done" /\ result'.err = "wait"
                   \/ \E c2 \in BagToSet(callers') :
                         /\ c2.err = "wait" /\ c2.pc \in {"sleep"}
                         /\ CopiesIn(c2, callers') > CopiesIn(c2, callers)
       /\ \A i \in 1..Len(items) :
             items'[i].failoverHandler # items[i].failoverHandler =>
                 \E cl \in BagToSet(callers) :
                     /\ cl.pc = "instance" /\ cl.cur = i
                     /\ CopiesIn(cl, callers') < CopiesIn(cl, callers)
      ]_vars

C17_Witness ==
    /\ result.pc = "done"
    /\ result.err = "wait"
    /\ result.retry = 2
    /\ result.invocations = 3
    /\ nCalls = 1
    /\ callers = EmptyBag
    /\ \A i \in 1..Len(items) :
          items[i].failoverHandler =
              NewGeneralFailoverHandler(items[i].failoverHandler.failoverConfig)

\* the calls that are in the bag after the step in more copies than before
Entered(cl) == CopiesIn(cl, callers') > CopiesIn(cl, callers)

\* C32 as stated: no call of a backend instance starts at a moment when the
\* backend's IsDisabled is true
C32_NoStartOnDisabled ==
    [][\A cl \in BagToSet(callers') :
          (Entered(cl) /\ cl.pc = "instance") =>
              ~ItemIsDisabled(items[cl.cur], now)]_vars

\* C32: Select never returns a backend whose IsDisabled is true at the call:
\* every attempt that goes on to the limiter wait, or to the instance call of
\* a backend without limiter, does so on a backend that is not disabled at
\* its selection. Nothing holds the backend enabled during the limiter wait.
C32_NotDisabledAtSelection ==
    [][\A cl \in BagToSet(callers') :
          (/\ Entered(cl)
           /\ \/ cl.pc = "wait"
              \/ cl.pc = "instance" /\ ~items[cl.cur].limiter) =>
              ~ItemIsDisabled(items[cl.cur], now)]_vars

\* a call waits for the limiter of a backend that another call's failure has
\* disabled since it was selected
C32_Witness ==
    \E cl \in BagToSet(callers) :
        /\ cl.pc = "wait"
        /\ ItemIsDisabled(items[cl.cur], now)

(* ------ the service with backend instances that may panic: SpecPanic --- *)
\* ct.instance.Translate panics: neither CommonTranslator.Translate nor
\* TranslateService.translate nor Translate recovers, so the panic unwinds
\* the call (past onFailure and the retry loop) up to the deferred recover of
\* Bot.handleMessage; the other calls go on
SvcInstancePanic ==
    \E cl \in BagToSet(callers) :
        /\ cl.pc = "instance"
        /\ Continue(cl, [cl EXCEPT !.pc = "panic", !.err = "instance panic"])
        /\ UNCHANGED <<now, fhVars, extVars, items, selRest, nSkew, svc, nCalls,
                       everSucceeded>>

NextPanic == NextSvc \/ SvcInstancePanic

SpecPanic == InitSvc /\ [][NextPanic]_vars

\* C19: a panic inside a call of a backend instance is turned into a backend
\* error at the boundary of the invocation. Whenever a call of an instance
\* ends, in whatever way, the failover handler of its backend has been told
\* (OnFailure, or OnSuccess after a success), the call of Translate goes on
\* with its retry loop or returns (it is not torn down), and the other calls
\* in progress are untouched.
C19_InstancePanicIsBackendError ==
    [][\A cl \in BagToSet(callers) :
          (cl.pc = "instance" /\ CopiesIn(cl, callers') < CopiesIn(cl, callers))
          => LET h == items[cl.cur].failoverHandler IN
             /\ \/ /\ items'[cl.cur].failoverHandler = OnFailureState(h, now)
                   /\ \/ /\ BagCardinality(callers') < BagCardinality(callers)
                         /\ result'.pc = "done" /\ result'.err = "backend"
                         /\ result'.retry = svc.maxmiumRetry
                      \/ /\ BagCardinality(callers') = BagCardinality(callers)
                         /\ cl.retry < svc.maxmiumRetry
                \/ /\ items'[cl.cur].failoverHandler = OnSuccess(h)
                   /\ result'.pc = "done" /\ result'.err = "nil"
             /\ (callers (-) SetToBag({cl})) \sqsubseteq callers'
      ]_vars

(* ------- the handler under concurrent callers: SpecMu ------------------ *)
\* sync.Mutex.Lock returns only while no goroutine holds the mutex
MutexFree_Always(m) == TRUE

MutexFree(m) == m = 0

\* OnFailure after gfh.failures += 1: the threshold branch and the result
OnFailureBranch(h, t) ==
    IF h.failures >= h.failoverConfig.MaxFailures
    THEN LET m == h.currentCooldownMultiplier + 1
             c == h.disableCycleCount + 1
             h1 == [h EXCEPT !.failures = 0,
                             !.currentCooldownMultiplier = m,
                             !.disableCycleCount = c]
         IN  IF c >= h.failoverConfig.MaxDisableCycles
             THEN [h |-> [h1 EXCEPT !.isPermanentlyDisabled = TRUE],
                   ret |-> TRUE]
             ELSE [h |-> [h1 EXCEPT !.disableUntil =
                                 t + m * h.failoverConfig.CooldownBaseSec],
                   ret |-> TRUE]
    ELSE [h |-> h, ret |-> FALSE]

InitMu ==
    /\ now = 1
    /\ \E conf \in FailoverConfigs :
          /\ gfh = NewGeneralFailoverHandler(conf)
          /\ lin = NewGeneralFailoverHandler(conf)
    /\ call = NoCall
    /\ nFail = 0
    /\ coolSeen = FALSE
    /\ coolAtSuccess = ZeroTime
    /\ SelIdle
    /\ LockIdle
    /\ SmoothIdle
    /\ InvIdle
    /\ WmIdle
    /\ ConfIdle
    /\ UpIdle
    /\ SvcIdle
    /\ mu = 0
    /\ procs = [p \in 1..MaxProcs |-> IdleProc]
    /\ nOps = 0
    /\ LimIdle
    /\ DetIdle
    /\ RlIdle
    /\ BotIdle

muRest == <<call, nFail, coolSeen, coolAtSuccess, selVars, svcVars, limVars,
            detVars, rlVars, botVars, upVars, confVars, wmVars, invVars,
            smoothVars, lockVars>>

\* a goroutine calls OnSuccess, OnFailure or IsDisabled
MuCall ==
    \E p \in 1..MaxProcs, op \in {"OnSuccess", "OnFailure", "IsDisabled"} :
        /\ procs[p].pc \in {"idle", "done"}
        /\ nOps < MaxMuOps
        /\ nOps' = nOps + 1
        /\ procs' = [procs EXCEPT ![p] =
                        [IdleProc EXCEPT !.op = op,
                                         !.pc = IF op = "OnFailure"
                                                THEN "log" ELSE "lock"]]
        /\ UNCHANGED <<now, gfh, mu, lin, muRest>>

\* OnFailure's first line: gfh.failures is read for the log line before the
\* mutex is taken; the value goes to the log only
MuLog ==
    \E p \in 1..MaxProcs :
        /\ procs[p].pc = "log"
        /\ procs' = [procs EXCEPT ![p].pc = "lock"]
        /\ UNCHANGED <<now, gfh, mu, lin, nOps, muRest>>

\* gfh.mu.Lock() returns
MuLock ==
    \E p \in 1..MaxProcs :
        /\ procs[p].pc = "lock"
        /\ MutexFree(mu)
        /\ mu' = p
        /\ procs' = [procs EXCEPT ![p].pc =
                        CASE procs[p].op = "OnSuccess" -> "check"
                          [] procs[p].op = "OnFailure" -> "load"
                          [] OTHER -> "read"]
        /\ UNCHANGED <<now, gfh, lin, nOps, muRest>>

\* a call has ended: its locals are dropped, its result and the result of
\* the same call in the one-at-a-time run are kept
Finished(pr, ret, seqRet) ==
    [IdleProc EXCEPT !.op = pr.op, !.pc = "done", !.ret = ret,
                     !.seqRet = seqRet]

\* OnFailure, gfh.failures += 1: the read
MuLoad ==
    \E p \in 1..MaxProcs :
        /\ procs[p].pc = "load"
        /\ procs' = [procs EXCEPT ![p].tmp = gfh.failures, ![p].pc = "store"]
        /\ UNCHANGED <<now, gfh, mu, lin, nOps, muRest>>

\* OnFailure, gfh.failures += 1: the write
MuStore ==
    \E p \in 1..MaxProcs :
        /\ procs[p].pc = "store"
        /\ gfh' = [gfh EXCEPT !.failures = procs[p].tmp + 1]
        /\ procs' = [procs EXCEPT ![p].tmp = 0, ![p].pc = "branch"]
        /\ UNCHANGED <<now, mu, lin, nOps, muRest>>

\* OnFailure: the threshold branch, the return and the deferred Unlock
MuBranch ==
    \E p \in 1..MaxProcs :
        /\ procs[p].pc = "branch"
        /\ gfh' = OnFailureBranch(gfh, now).h
        /\ lin' = OnFailureState(lin, now)
        /\ procs' = [procs EXCEPT ![p] =
                        Finished(@, OnFailureBranch(gfh, now).ret,
                                 OnFailureResult(lin))]
        /\ mu' = 0
        /\ UNCHANGED <<now, nOps, muRest>>

\* OnSuccess: rst is computed from the three counters
MuCheck ==
    \E p \in 1..MaxProcs :
        /\ procs[p].pc = "check"
        /\ procs' = [procs EXCEPT ![p].rst =
                        (gfh.failures > 0 \/ gfh.currentCooldownMultiplier > 0
                           \/ gfh.disableCycleCount > 0),
                                  ![p].pc = "reset"]
        /\ UNCHANGED <<now, gfh, mu, lin, nOps, muRest>>

\* OnSuccess: resetState if rst, and Unlock
MuReset ==
    \E p \in 1..MaxProcs :
        /\ procs[p].pc = "reset"
        /\ gfh' = IF procs[p].rst THEN resetState(gfh) ELSE gfh
        /\ lin' = OnSuccess(lin)
        /\ procs' = [procs EXCEPT ![p] = Finished(@, FALSE, FALSE)]
        /\ mu' = 0
        /\ UNCHANGED <<now, nOps, muRest>>

\* IsDisabled: ret is computed, then Unlock and the return
MuRead ==
    \E p \in 1..MaxProcs :
        /\ procs[p].pc = "read"
        /\ procs' = [procs EXCEPT ![p].ret =
                        (gfh.isPermanentlyDisabled \/ now < gfh.disableUntil),
                                  ![p].t = now,
                                  ![p].pc = "unlock"]
        /\ UNCHANGED <<now, gfh, mu, lin, nOps, muRest>>

MuUnlock ==
    \E p \in 1..MaxProcs :
        /\ procs[p].pc = "unlock"
        /\ procs' = [procs EXCEPT ![p] =
                        Finished(@, @.ret, IsDisabled(lin, @.t))]
        /\ mu' = 0
        /\ UNCHANGED <<now, gfh, lin, nOps, muRest>>

NextMu ==
    \/ MuCall \/ MuLog \/ MuLock \/ MuLoad \/ MuStore \/ MuBranch
    \/ MuCheck \/ MuReset \/ MuRead \/ MuUnlock \/ Tick

SpecMu == InitMu /\ [][NextMu]_vars

\* the positions of a call between its Lock and its Unlock
InCritical(pc) == pc \in {"load", "store", "branch", "check", "reset",
                          "read", "unlock"}

\* C13: OnFailure, OnSuccess and IsDisabled of one handler are atomic with
\* respect to each other. At most one goroutine is between Lock and Unlock,
\* so no OnFailure runs between the check and the reset of an OnSuccess;
\* whenever the mutex is free the handler is in the state that the calls
\* finished so far leave when run one at a time in the order of their
\* unlocks (no failure increment is lost), and every finished call has
\* returned what it returns in that run.
C13_HandlerAtomic ==
    /\ \A p, q \in DOMAIN procs :
          (InCritical(procs[p].pc) /\ InCritical(procs[q].pc)) => p = q
    /\ \A p \in DOMAIN procs : InCritical(procs[p].pc) => mu = p
    /\ mu = 0 => gfh = lin
    /\ \A p \in DOMAIN procs :
          procs[p].pc = "done" => procs[p].ret = procs[p].seqRet

C13_Witness ==
    /\ procs[1].op = "OnFailure" /\ procs[1].pc = "done" /\ procs[1].ret
    /\ procs[2].op = "OnSuccess" /\ procs[2].pc = "lock"
    /\ gfh.disableCycleCount = 1
    /\ gfh.failoverConfig.MaxFailures = 2
    /\ nOps = 3

(* ---------------- the admission limiter: SpecLim ----------------------- *)
\* rate limit configurations RateLimitConfig.Check lets through
RateLimitConfigs ==
    [Enabled : {TRUE}, BucketSize : 1..MaxBucket, RefillTPS : 1..MaxRefill]
    \cup {[Enabled |-> FALSE, BucketSize |-> 0, RefillTPS |-> 0]}

\* nil when the rate limit is not enabled, otherwise a bucket that starts full
NewLimiterFromConfig(conf) ==
    IF ~conf.Enabled THEN NoLimiter
    ELSE [enabled |-> TRUE, burst |-> conf.BucketSize,
          refill |-> conf.RefillTPS, tokens |-> conf.BucketSize]

\* a context that carries no deadline of the translator
ContextWithTimeout_NoDeadline(t, timeout) == t + timeout + MaxNow

\* context.WithTimeout(context.Background(), ct.timeout) at time t: the
\* deadline of the context
ContextWithTimeout(t, timeout) == t + timeout

\* limiter.Wait(ctx) at time t, up to the point where it would block: a
\* context past its deadline gives an error at once, a token in the bucket is
\* taken, otherwise the caller blocks
Acquire(l, ctx, t) ==
    IF t >= ctx THEN [limiter |-> l, out |-> "deadline"]
    ELSE IF l.tokens >= 1
         THEN [limiter |-> [l EXCEPT !.tokens = @ - 1], out |-> "nil"]
         ELSE [limiter |-> l, out |-> "block"]

\* CommonTranslator.wait: nil without a limiter, limiter.Wait(ctx) with one
wait(l, ctx, t) ==
    IF l = NoLimiter THEN [limiter |-> l, out |-> "nil"]
    ELSE Acquire(l, ctx, t)

\* the bucket after one second
Refill(l) ==
    IF l = NoLimiter THEN l
    ELSE [l EXCEPT !.tokens = IF @ + l.refill > l.burst THEN l.burst
                                ELSE @ + l.refill]

InitLim ==
    /\ now = 1
    /\ FHIdle
    /\ SelIdle
    /\ LockIdle
    /\ SmoothIdle
    /\ InvIdle
    /\ WmIdle
    /\ ConfIdle
    /\ UpIdle
    /\ SvcIdle
    /\ MuIdle
    /\ DetIdle
    /\ RlIdle
    /\ BotIdle
    /\ \E conf \in RateLimitConfigs : limiter = NewLimiterFromConfig(conf)
    /\ ctTimeout \in 1..MaxTimeout
    /\ acq = [w \in 1..MaxWaiters |-> IdleWaiter]

limRest == <<fhVars, selVars, svcVars, muVars, detVars, rlVars, botVars,
             upVars, confVars, wmVars, invVars, smoothVars, lockVars>>

\* CommonTranslator.Translate is entered: the context is made
LimTranslate ==
    \E w \in 1..MaxWaiters :
        /\ acq[w].pc \in {"idle", "done"}
        /\ acq' = [acq EXCEPT ![w] =
                      [IdleWaiter EXCEPT
                          !.pc = "ctx",
                          !.deadline = now + ctTimeout,
                          !.ctx = ContextWithTimeout(now, ctTimeout)]]
        /\ UNCHANGED <<now, limiter, ctTimeout, limRest>>

\* err = ct.wait(ctx) is called
LimWait ==
    \E w \in 1..MaxWaiters :
        /\ acq[w].pc = "ctx"
        /\ LET r == wait(limiter, acq[w].ctx, now) IN
           /\ limiter' = r.limiter
           /\ acq' = [acq EXCEPT ![w] =
                         IF r.out = "block"
                         THEN [@ EXCEPT !.pc = "blocked", !.enter = now,
                                        !.blocked = TRUE]
                         ELSE [@ EXCEPT !.pc = "done", !.enter = now,
                                        !.err = r.out, !.at = now]]
        /\ UNCHANGED <<now, ctTimeout, limRest>>

\* a blocked limiter.Wait gets its token
LimGrant ==
    \E w \in 1..MaxWaiters :
        /\ acq[w].pc = "blocked"
        /\ now <= acq[w].ctx
        /\ limiter.tokens >= 1
        /\ limiter' = [limiter EXCEPT !.tokens = @ - 1]
        /\ acq' = [acq EXCEPT ![w].pc = "done", ![w].err = "nil",
                              ![w].at = now]
        /\ UNCHANGED <<now, ctTimeout, limRest>>

\* the deadline of the context of a blocked limiter.Wait fires
LimExpire ==
    \E w \in 1..MaxWaiters :
        /\ acq[w].pc = "blocked"
        /\ now >= acq[w].ctx
        /\ acq' = [acq EXCEPT ![w].pc = "done", ![w].err = "deadline",
                              ![w].at = now]
        /\ UNCHANGED <<now, limiter, ctTimeout, limRest>>

\* a second passes: the bucket refills; a context whose deadline is reached
\* has fired before
LimTick ==
    /\ now < MaxNow
    /\ \A w \in 1..MaxWaiters : acq[w].pc = "blocked" => now < acq[w].ctx
    /\ now' = now + 1
    /\ limiter' = Refill(limiter)
    /\ UNCHANGED <<ctTimeout, acq, limRest>>

NextLim == LimTranslate \/ LimWait \/ LimGrant \/ LimExpire \/ LimTick

SpecLim == InitLim /\ [][NextLim]_vars

\* C16: the limiter wait never blocks past the deadline of the translator's
\* context: a goroutine is blocked only before that deadline, a wait that
\* blocked has returned by the deadline, with nil or, once the deadline has
\* fired, with an error; a wait entered with the deadline already past
\* returns the error at once; without a limiter it returns nil at once.
C16_WaitHonoursDeadline ==
    \A w \in DOMAIN acq :
        LET a == acq[w] IN
        /\ a.pc = "blocked" => (limiter # NoLimiter /\ now <= a.deadline)
        /\ a.pc = "done" =>
              /\ a.err \in {"nil", "deadline"}
              /\ a.at <= (IF a.enter > a.deadline THEN a.enter ELSE a.deadline)
              /\ a.err = "deadline" => a.at >= a.deadline
              /\ ~a.blocked => a.at = a.enter
              /\ (limiter # NoLimiter /\ a.enter >= a.deadline) =>
                     (a.err = "deadline" /\ ~a.blocked)
              /\ limiter = NoLimiter => (a.err = "nil" /\ ~a.blocked)

C16_Witness ==
    /\ limiter # NoLimiter
    /\ limiter.tokens = 0
    /\ acq[1].pc = "blocked" /\ now < acq[1].deadline
    /\ acq[2].pc = "done" /\ ~acq[2].blocked /\ acq[2].err = "deadline"
    /\ acq[2].enter > acq[2].deadline
    /\ acq[2].at = now

(* ---------------- the language detector: SpecDet ----------------------- *)
\* the languages an instance may come up with ("" when nothing is reliable),
\* the confidences in tenths, and the configured filter and threshold
DetectedLangs == {"", "JA", "FR"}

Confidences == {2, 8}

SourceLangs == {"JA"}

ConfidenceThreshold == 5

\* baseInstance.checkDetectResult: a weak error for an empty, a filtered-out
\* or a low-confidence language
checkDetectResult(lang, confidence) ==
    IF lang = "" THEN "weak"
    ELSE IF lang \notin SourceLangs THEN "weak"
    ELSE IF confidence < ConfidenceThreshold THEN "weak"
    ELSE "nil"

\* Instance.Detect: the client's error, or the result of checkDetectResult
InstanceDetect(clientErr, lang, confidence) ==
    IF clientErr THEN "error" ELSE checkDetectResult(lang, confidence)

\* GeneralLanguageDetector.Detect at time t: the detector afterwards and the
\* error returned
Detect(d, waitOk, instErr, t) ==
    IF d.limiter /\ ~waitOk THEN [det |-> d, err |-> "wait"]
    ELSE IF instErr # "nil"
         THEN [det |-> [d EXCEPT !.failoverHandler = OnFailureState(@, t)],
               err |-> instErr]
         ELSE [det |-> [d EXCEPT !.failoverHandler = OnSuccess(@)],
               err |-> "nil"]

InitDet ==
    /\ now = 1
    /\ FHIdle
    /\ SelIdle
    /\ LockIdle
    /\ SmoothIdle
    /\ InvIdle
    /\ WmIdle
    /\ ConfIdle
    /\ UpIdle
    /\ SvcIdle
    /\ MuIdle
    /\ LimIdle
    /\ RlIdle
    /\ BotIdle
    /\ \E conf \in FailoverConfigs, limited \in BOOLEAN :
          det = NewGeneralLanguageDetector(conf, limited)
    /\ detCall = NoDetect

detRest == <<fhVars, selVars, svcVars, muVars, limVars, rlVars, botVars,
             upVars, confVars, wmVars, invVars, smoothVars, lockVars>>

\* a call of Detect on the detector, from its entry to its return
DetDetect ==
    \E waitOk \in BOOLEAN, clientErr \in BOOLEAN, lang \in DetectedLangs,
       confidence \in Confidences :
        LET r == Detect(det, waitOk, InstanceDetect(clientErr, lang, confidence),
                        now)
        IN  /\ det.failoverHandler.disableCycleCount
                 < det.failoverHandler.failoverConfig.MaxDisableCycles
                     + ExtraCycles
            /\ det' = r.det
            /\ detCall' = [op |-> "Detect", lang |-> lang,
                           confidence |-> confidence,
                           pre |-> det.failoverHandler, err |-> r.err]
            /\ UNCHANGED <<now, detRest>>

DetTick ==
    /\ now < MaxNow
    /\ now' = now + 1
    /\ UNCHANGED <<det, detCall, detRest>>

NextDet == DetDetect \/ DetTick

SpecDet == InitDet /\ [][NextDet]_vars

\* C18: a weak error (no reliable language, a language outside the source
\* filter, a confidence below the threshold) is recognised before the failover
\* accounting: a call of Detect that returns one leaves the failover handler
\* of the detector as it was.
C18_WeakErrorNotCounted ==
    (detCall.op = "Detect" /\ detCall.err = "weak") =>
        det.failoverHandler = detCall.pre

(* ---------------- configuration reload: SpecReload --------------------- *)
\* logrus.ParseLevel knows the level
ValidLevel(level) == level \in {"info", "debug"}

\* NewTranslateService: an error for an unrecognized selector or a retry
\* cooldown that is not positive, otherwise the service built from conf
NewTranslateService(conf) ==
    IF conf.TranslatorSelector \notin {"wrr", "fallback"}
    THEN [ts |-> 0, err |-> "unrecognized translator selector"]
    ELSE IF conf.RetryCooldown <= 0
         THEN [ts |-> 0, err |-> "retry cooldown must be positive"]
         ELSE [ts |-> conf, err |-> "nil"]

\* the contents a configuration file may have when it can be read and parsed
Configs ==
    [LogLevel : {"info", "debug", "verbose"},
     TranslateService : [TranslatorSelector : {"wrr", "fallback", "random"},
                         RetryCooldown : {0, 1}],
     AllowedChats : {{1}, {1, 2}},
     MessageSettings : BOOLEAN]

\* main: the configuration is loaded, the log level is set if it parses,
\* the translate service and the bot are built (or the process exits)
InitReload ==
    /\ now = 1
    /\ FHIdle
    /\ SelIdle
    /\ LockIdle
    /\ SmoothIdle
    /\ InvIdle
    /\ WmIdle
    /\ ConfIdle
    /\ UpIdle
    /\ SvcIdle
    /\ MuIdle
    /\ LimIdle
    /\ DetIdle
    /\ BotIdle
    /\ \E cfg \in Configs :
          /\ NewTranslateService(cfg.TranslateService).err = "nil"
          /\ logLevel = IF ValidLevel(cfg.LogLevel) THEN cfg.LogLevel
                        ELSE "info"
          /\ bot = [translateService |->
                        NewTranslateService(cfg.TranslateService).ts,
                    allowedChats |-> cfg.AllowedChats,
                    messageSettings |-> cfg.MessageSettings]
    /\ sig = NoReload

rlRest == <<now, fhVars, selVars, svcVars, muVars, limVars, detVars,
           botVars, upVars, confVars, wmVars, invVars, smoothVars, lockVars>>

\* SIGHUP arrives and loadConfig reads the file, or fails to
RlSignal ==
    /\ sig.pc = "idle"
    /\ \/ sig' = [NoReload EXCEPT !.before = InForce, !.failed = "load"]
       \/ \E cfg \in Configs :
             sig' = [NoReload EXCEPT !.pc = "log", !.cfg = cfg,
                                     !.before = InForce]
    /\ UNCHANGED <<logLevel, bot, rlRest>>

\* reloadLogConfig(appConfig.LogLevel)
RlLogConfig ==
    /\ sig.pc = "log"
    /\ IF ValidLevel(sig.cfg.LogLevel)
       THEN /\ logLevel' = sig.cfg.LogLevel
            /\ sig' = [sig EXCEPT !.pc = "service"]
       ELSE /\ logLevel' = logLevel
            /\ sig' = [sig EXCEPT !.pc = "idle", !.failed = "level"]
    /\ UNCHANGED <<bot, rlRest>>

\* translate.NewTranslateService(appConfig.TranslateService)
RlNewService ==
    /\ sig.pc = "service"
    /\ LET r == NewTranslateService(sig.cfg.TranslateService) IN
       sig' = IF r.err = "nil"
              THEN [sig EXCEPT !.pc = "bot", !.service = r.ts]
              ELSE [sig EXCEPT !.pc = "idle", !.failed = "service"]
    /\ UNCHANGED <<logLevel, bot, rlRest>>

\* Bot.ReloadConfig: the fields it assigns
ReloadConfig(botConfig, translateService) ==
    [translateService |-> translateService,
     allowedChats |-> botConfig.AllowedChats,
     messageSettings |-> botConfig.MessageSettings]

\* Bot.ReloadConfig, under configMu
RlBotReload ==
    /\ sig.pc = "bot"
    /\ bot' = ReloadConfig(sig.cfg, sig.service)
    /\ sig' = [sig EXCEPT !.pc = "idle"]
    /\ UNCHANGED <<logLevel, rlRest>>

NextReload == RlSignal \/ RlLogConfig \/ RlNewService \/ RlBotReload

SpecReload == InitReload /\ [][NextReload]_vars

\* C20: a reload is never partially applied. After a reload in which a step
\* failed, the log level, the active translate service, the allowed chats
\* and the message settings are what they were when the reload began.
C20_ReloadAllOrNothing ==
    (sig.pc = "idle" /\ sig.failed # "none") => InForce = sig.before

(* ---------------- the bot's worker pool: SpecBot ----------------------- *)
\* the ids of the chats (or, in a private chat, users) that write to the bot
ChatIds == {1, 2}

\* BotConfig: the fields Bot.ReloadConfig reads
BotConfigs == [AllowedChats : {{1}, {1, 2}}, MessageSettings : BOOLEAN]

\* a send on a channel of capacity cap holding n elements does not block
ChanCanSend_Unbounded(n, cap) == TRUE

\* a send on a channel of capacity cap holding n elements does not block
ChanCanSend(n, cap) == n < cap

\* the number of elements of a channel after a goroutine that ends without
\* receiving from it
ChanRecv_Skipped(n) == n

\* the number of elements of a channel holding n after a receive: <-q
ChanRecv(n) == n - 1

\* Bot.isAllowed
isAllowed(b, chat) == chat \in b.allowedChats

\* Message.onProcessed
onProcessed(g) == [g EXCEPT !.processing = @ - 1]

\* Message.onMessageHandleFailed
onMessageHandleFailed(g) == onProcessed([g EXCEPT !.failed = @ + 1])

\* Message.onUnauthorized
onUnauthorized(g) == onProcessed([g EXCEPT !.unauthorized = @ + 1])

\* Message.onSuccess
onSuccess(g) == onProcessed([g EXCEPT !.processed = @ + 1])

\* Message.onPending
onPending(g) == [g EXCEPT !.pending = @ + 1]

\* Message.onProcessing
onProcessing(g) == [[g EXCEPT !.pending = @ - 1] EXCEPT !.processing = @ + 1]

\* the increments of the terminal states so far
Terminals(g) == g.unauthorized + g.failed + g.processed

\* the goroutine ServeBot starts for a message: about to enter
\* handleMessage while service is the bot's translate service
NewHandler(chat, service) ==
    [pc |-> "isAllowed", chat |-> chat, startSvc |-> service,
     detectSvc |-> 0, translateSvc |-> 0, terminal |-> 0]

\* a goroutine that has ended
HandlerDone ==
    [pc |-> "done", chat |-> 0, startSvc |-> 0, detectSvc |-> 0,
     translateSvc |-> 0, terminal |-> 0]

\* newBot: worker_pool_size is positive, the first translate service
InitBot ==
    /\ now = 1
    /\ FHIdle
    /\ SelIdle
    /\ LockIdle
    /\ SmoothIdle
    /\ InvIdle
    /\ WmIdle
    /\ ConfIdle
    /\ UpIdle
    /\ SvcIdle
    /\ MuIdle
    /\ LimIdle
    /\ DetIdle
    /\ logLevel = "info"
    /\ sig = NoReload
    /\ \E conf \in BotConfigs : bot = ReloadConfig(conf, 1)
    /\ workerPoolSize \in 1..MaxWorkerPoolSize
    /\ qLen = 0
    /\ serve = ServeRecv
    /\ msgs = <<>>
    /\ gauge = NoMessages
    /\ nReload = 0

botRest == <<now, fhVars, selVars, svcVars, muVars, limVars, detVars,
            logLevel, sig, workerPoolSize, upVars, confVars, wmVars, invVars,
             smoothVars, lockVars>>

\* ServeBot: an update with a message that has text arrives
BotUpdate ==
    /\ serve.pc = "recv"
    /\ Len(msgs) < MaxMessages
    /\ \E chat \in ChatIds : serve' = [pc |-> "queue", chat |-> chat]
    /\ gauge' = onPending(gauge)
    /\ UNCHANGED <<bot, qLen, msgs, nReload, botRest>>

\* ServeBot: q <- 1, msg.onProcessing(), go func(m) { ... }(msg)
BotDispatch ==
    /\ serve.pc = "queue"
    /\ ChanCanSend(qLen, workerPoolSize)
    /\ qLen' = qLen + 1
    /\ gauge' = onProcessing(gauge)
    /\ msgs' = Append(msgs, NewHandler(serve.chat, bot.translateService))
    /\ serve' = ServeRecv
    /\ UNCHANGED <<bot, nReload, botRest>>

\* the goroutine of message m goes to position pc with the gauges g
HandlerStep(m, pc, g) ==
    /\ gauge' = g
    /\ msgs' = [msgs EXCEPT ![m].pc = pc,
                            ![m].terminal = @ + Terminals(g) - Terminals(gauge)]

\* handleMessage: b.isAllowed(msg)
BotIsAllowed(m) ==
    /\ msgs[m].pc = "isAllowed"
    /\ IF isAllowed(bot, msgs[m].chat)
       THEN HandlerStep(m, "DetectLang", gauge)
       ELSE HandlerStep(m, "release", onUnauthorized(gauge))
    /\ UNCHANGED <<bot, qLen, serve, nReload, botRest>>

\* handleMessage: b.translateService.DetectLang(msg.Content)
BotDetectLang(m) ==
    /\ msgs[m].pc = "DetectLang"
    /\ \E err \in BOOLEAN :
          LET used == [msgs EXCEPT ![m].detectSvc = bot.translateService]
              g == IF err THEN onMessageHandleFailed(gauge) ELSE gauge
          IN /\ gauge' = g
             /\ msgs' = [used EXCEPT
                            ![m].pc = IF err THEN "release" ELSE "Translate",
                            ![m].terminal = @ + Terminals(g) - Terminals(gauge)]
    /\ UNCHANGED <<bot, qLen, serve, nReload, botRest>>

\* handleMessage: b.translateService.Translate(...); with an error resp is
\* nil, resp.TranslatorName panics and the deferred function recovers
BotTranslate(m) ==
    /\ msgs[m].pc = "Translate"
    /\ \E err \in BOOLEAN :
          LET used == [msgs EXCEPT ![m].translateSvc = bot.translateService]
              g == IF err THEN onMessageHandleFailed(gauge) ELSE gauge
          IN /\ gauge' = g
             /\ msgs' = [used EXCEPT
                            ![m].pc = IF err THEN "release" ELSE "Send",
                            ![m].terminal = @ + Terminals(g) - Terminals(gauge)]
    /\ UNCHANGED <<bot, qLen, serve, nReload, botRest>>

\* handleMessage: b.bot.Send(reply), then msg.onSuccess()
BotSend(m) ==
    /\ msgs[m].pc = "Send"
    /\ \E err \in BOOLEAN :
          HandlerStep(m, "release",
                      onSuccess(IF err THEN onMessageHandleFailed(gauge)
                                ELSE gauge))
    /\ UNCHANGED <<bot, qLen, serve, nReload, botRest>>

\* the goroutine after handleMessage: <-q
BotRelease(m) ==
    /\ msgs[m].pc = "release"
    /\ qLen' = ChanRecv(qLen)
    /\ msgs' = [msgs EXCEPT ![m] = HandlerDone]
    /\ UNCHANGED <<bot, serve, gauge, nReload, botRest>>

\* handleSignals: Bot.ReloadConfig with a new translate service
BotReloadConfig ==
    /\ nReload < MaxReloads
    /\ nReload' = nReload + 1
    /\ \E conf \in BotConfigs :
          bot' = ReloadConfig(conf, bot.translateService + 1)
    /\ UNCHANGED <<qLen, serve, msgs, gauge, botRest>>

NextBot ==
    \/ BotUpdate
    \/ BotDispatch
    \/ BotReloadConfig
    \/ \E m \in 1..Len(msgs) : BotIsAllowed(m)
    \/ \E m \in 1..Len(msgs) : BotDetectLang(m)
    \/ \E m \in 1..Len(msgs) : BotTranslate(m)
    \/ \E m \in 1..Len(msgs) : BotSend(m)
    \/ \E m \in 1..Len(msgs) : BotRelease(m)

SpecBot == InitBot /\ [][NextBot]_vars

\* the messages whose goroutine is inside handleMessage
Handling ==
    {m \in 1..Len(msgs) :
        msgs[m].pc \in {"isAllowed", "DetectLang", "Translate", "Send"}}

\* C21: a message uses one translate service for all of its steps, the one
\* that was active when its handling started: its language detection and
\* its translation are both made on that service, also when a reload swaps
\* the active service while the message is handled.
C21_OneServicePerMessage ==
    \A m \in 1..Len(msgs) :
        /\ msgs[m].detectSvc \in {0, msgs[m].startSvc}
        /\ msgs[m].translateSvc \in {0, msgs[m].startSvc}

\* C22: at most workerPoolSize goroutines are inside handleMessage, every
\* one of them holds a slot of the queue, and the queue never holds more
\* than workerPoolSize slots.
C22_WorkerPoolBound ==
    /\ Cardinality(Handling) <= workerPoolSize
    /\ Cardinality(Handling) <= qLen
    /\ qLen <= workerPoolSize

\* all slots are taken by goroutines inside handleMessage while ServeBot
\* waits at the queue with the next message
C22_Witness ==
    /\ Cardinality(Handling) = workerPoolSize
    /\ workerPoolSize = MaxWorkerPoolSize
    /\ serve.pc = "queue"

\* C24: the gauge of state processing is the number of messages being
\* handled, it is never negative, and a message whose handling has ended
\* has incremented exactly one of unauthorized, failed and processed.
C24_GaugesConsistent ==
    /\ gauge.processing = Cardinality(Handling)
    /\ gauge.processing >= 0
    /\ \A m \in 1..Len(msgs) : msgs[m].pc = "release" => msgs[m].terminal = 1

\* the steps of the goroutine of message m, from handleMessage to <-q
BotHandler(m) ==
    /\ m \in 1..Len(msgs)
    /\ \/ BotIsAllowed(m)
       \/ BotDetectLang(m)
       \/ BotTranslate(m)
       \/ BotSend(m)
       \/ BotRelease(m)

\* the bot with its goroutines scheduled: a goroutine that can take a step
\* takes it (the calls of handleMessage return), and ServeBot's send on the
\* queue goes through once the queue has room
SpecBotFair ==
    /\ SpecBot
    /\ WF_vars(BotDispatch)
    /\ \A m \in 1..MaxMessages : WF_vars(BotHandler(m))

\* the messages whose goroutine has not yet received from the queue
HoldingSlot == {m \in 1..Len(msgs) : msgs[m].pc # "done"}

\* C39: every slot ServeBot takes for a message is released exactly once,
\* when the message's handling has ended, on every path of handleMessage:
\* the queue holds one slot for each message whose goroutine has not ended,
\* every message that was dispatched has its slot released in the end, and
\* a message that waits for a slot is admitted in the end.
C39_SlotReleasedOnce ==
    /\ [](qLen = Cardinality(HoldingSlot))
    /\ \A m \in 1..MaxMessages :
          (m <= Len(msgs)) ~> (m <= Len(msgs) /\ msgs[m].pc = "done")
    /\ (serve.pc = "queue") ~> (serve.pc = "recv")

\* the pool is full again after a message's slot was released, and ServeBot
\* waits at the queue with the next message
C39_Witness ==
    /\ qLen = workerPoolSize
    /\ serve.pc = "queue"
    /\ \E m \in 1..Len(msgs) : msgs[m].pc = "done"

(* ------------- the translator_up gauge of a translator: SpecUp --------- *)
\* NewCommonTranslator: the gauge is set to 1, the handler is new
InitUp ==
    /\ now = 1
    /\ \E conf \in FailoverConfigs : gfh = NewGeneralFailoverHandler(conf)
    /\ call = NoCall
    /\ nFail = 0
    /\ coolSeen = FALSE
    /\ coolAtSuccess = ZeroTime
    /\ SelIdle
    /\ LockIdle
    /\ SmoothIdle
    /\ InvIdle
    /\ WmIdle
    /\ ConfIdle
    /\ UpIdle
    /\ SvcIdle
    /\ MuIdle
    /\ LimIdle
    /\ DetIdle
    /\ RlIdle
    /\ BotIdle

upRest == <<call, nFail, coolSeen, coolAtSuccess, selVars, svcVars, muVars,
            limVars, detVars, rlVars, botVars, confVars, wmVars, invVars,
            smoothVars, lockVars>>

\* CommonTranslator.onSuccess
UpOnSuccess ==
    /\ upMetric' = 1
    /\ gfh' = OnSuccess(gfh)
    /\ UNCHANGED <<now, upRest>>

\* CommonTranslator.onFailure
UpOnFailure ==
    /\ gfh.disableCycleCount < gfh.failoverConfig.MaxDisableCycles + ExtraCycles
    /\ gfh' = OnFailureState(gfh, now)
    /\ upMetric' = IF OnFailureResult(gfh) THEN 0 ELSE upMetric
    /\ UNCHANGED <<now, upRest>>

NextUp == UpOnSuccess \/ UpOnFailure \/ Tick

SpecUp == InitUp /\ [][NextUp]_vars

\* C23: the translator_up gauge is 0 exactly while the translator is
\* disabled by failover (in a cooldown or permanently) and 1 exactly while
\* it is operational.
C23_UpGaugeTracksDisabled ==
    upMetric = (IF IsDisabled(gfh, now) THEN 0 ELSE 1)

(* --------- checking the translators' configuration: SpecConf ----------- *)
\* the failover section of default_translator_config: each field is
\* left at its default or set to 0 by the file
DefaultFailoverInputs ==
    [MaxFailures : {0, DefaultMaxFailures},
     CooldownBaseSec : {0, DefaultCooldownBaseSec},
     MaxDisableCycles : {0, DefaultMaxDisableCycles}]

\* default_translator_config as the file may leave it
DefaultTranslatorConfigs == [Weight : {0, 1}, Failover : DefaultFailoverInputs]

\* rate_limit of a translator; a limiter that is not enabled has no values
RateLimitInputs ==
    [Enabled : {TRUE}, BucketSize : {0, 1}, RefillTPS : {0, 1}]
    \cup {[Enabled |-> FALSE, BucketSize |-> 0, RefillTPS |-> 0]}

\* one element of translators in the file
TranslatorConfigs ==
    [Name : {"", "a", "b"},
     Type : {"", "openai", "other"},
     Weight : {0, 1},
     Timeout : {0, 1},
     Endpoint : {"", "e"},
     Failover : [MaxFailures : {0, 1}, CooldownBaseSec : {0, 1},
                 MaxDisableCycles : {0, 1}],
     RateLimit : RateLimitInputs]

\* FailoverConfig.CheckAndMerge: the merged configuration and the error
CheckAndMerge(fc, cfg) ==
    LET f1 == IF fc.MaxFailures < 1
              THEN [fc EXCEPT !.MaxFailures = cfg.MaxFailures] ELSE fc
        f2 == IF f1.CooldownBaseSec <= 0
              THEN [f1 EXCEPT !.CooldownBaseSec = cfg.CooldownBaseSec]
              ELSE f1
        f3 == IF f2.MaxDisableCycles < 1
              THEN [f2 EXCEPT !.MaxDisableCycles = cfg.MaxDisableCycles]
              ELSE f2
    IN  IF f2.CooldownBaseSec <= 0
        THEN [fc |-> f2, err |-> "the failover cooldown must be positive"]
        ELSE [fc |-> f3, err |-> "nil"]

\* RateLimitConfig.Check
RateLimitCheck(rlc) ==
    IF rlc.Enabled /\ rlc.RefillTPS <= 0
    THEN "limiter refill rate must be positive"
    ELSE IF rlc.Enabled /\ rlc.BucketSize <= 0
         THEN "limiter bucket size must be positive"
         ELSE "nil"

\* TranslatorConfig.CheckAndMergeDefaultConfig: the merged configuration
\* and the error
CheckAndMergeDefaultConfig(tic, d) ==
    LET t1 == IF tic.Weight <= 0 THEN [tic EXCEPT !.Weight = d.Weight]
              ELSE tic
        fo == CheckAndMerge(t1.Failover, d.Failover)
        t2 == [t1 EXCEPT !.Failover = fo.fc]
    IN  IF tic.Name = ""
        THEN [tic |-> tic, err |-> "translator name is required"]
        ELSE IF tic.Type = ""
        THEN [tic |-> tic, err |-> "translator type is required"]
        ELSE IF tic.Weight <= 0 /\ d.Weight <= 0
        THEN [tic |-> tic, err |-> "translator weight must be positive"]
        ELSE IF t1.Timeout <= 0
        THEN [tic |-> t1, err |-> "translator timeout must be positive"]
        ELSE IF t1.Endpoint = ""
        THEN [tic |-> t1, err |-> "translator endpoint is required"]
        ELSE IF fo.err # "nil"
        THEN [tic |-> t2, err |-> fo.err]
        ELSE [tic |-> t2, err |-> RateLimitCheck(t2.RateLimit)]

\* weightTranslatorOptions built from a checked configuration
TranslatorOptions(tc) ==
    [Name |-> tc.Name, Weight |-> tc.Weight, Timeout |-> tc.Timeout,
     FailoverConfig |-> tc.Failover, RateLimitConfig |-> tc.RateLimit]

\* NewTranslateService up to initTranslatorEntries: the defaults as the
\* configuration file left them, an empty selector
InitConf ==
    /\ now = 1
    /\ FHIdle
    /\ SelIdle
    /\ LockIdle
    /\ SmoothIdle
    /\ InvIdle
    /\ WmIdle
    /\ SvcIdle
    /\ MuIdle
    /\ LimIdle
    /\ DetIdle
    /\ RlIdle
    /\ BotIdle
    /\ UpIdle
    /\ dtc \in DefaultTranslatorConfigs
    /\ names = <<>>
    /\ added = NoOptions
    /\ initErr = "nil"

confRest == <<now, fhVars, selVars, svcVars, muVars, limVars, detVars,
             rlVars, botVars, upVars, wmVars, invVars, smoothVars, lockVars>>

\* initTranslatorEntries with no translator configured
ConfNoTranslator ==
    /\ initErr = "nil"
    /\ names = <<>>
    /\ initErr' = "no translator configured"
    /\ UNCHANGED <<dtc, names, added, confRest>>

\* initTranslatorEntries: one turn of its loop, for the next translator
\* of the file
ConfTranslatorEntry ==
    /\ initErr = "nil"
    /\ Len(names) < MaxTranslators
    /\ \E tc \in TranslatorConfigs :
          LET r == CheckAndMergeDefaultConfig(tc, dtc) IN
          IF r.err # "nil"
          THEN /\ initErr' = r.err
               /\ UNCHANGED <<names, added>>
          ELSE IF r.tic.Type # "openai"
          THEN /\ initErr' = "unknown translator type"
               /\ UNCHANGED <<names, added>>
          ELSE IF \E i \in 1..Len(names) : names[i] = r.tic.Name
          THEN /\ initErr' = "duplicated translator name"
               /\ UNCHANGED <<names, added>>
          ELSE /\ initErr' = "nil"
               /\ names' = Append(names, r.tic.Name)
               /\ added' = TranslatorOptions(r.tic)
    /\ UNCHANGED <<dtc, confRest>>

NextConf == ConfNoTranslator \/ ConfTranslatorEntry

SpecConf == InitConf /\ [][NextConf]_vars

\* C25: configuration errors fail fast. A translator that is registered
\* without an error has weight >= 1, timeout > 0, maxFailures >= 1,
\* cooldownBaseSec > 0, maxDisableCycles >= 1 and, with its rate limit
\* enabled, bucketSize >= 1 and a refill rate > 0; and no two registered
\* translators have the same name.
C25_ConfigFailsFast ==
    /\ (initErr = "nil" /\ added # NoOptions) =>
          /\ added.Weight >= 1
          /\ added.Timeout > 0
          /\ added.FailoverConfig.MaxFailures >= 1
          /\ added.FailoverConfig.CooldownBaseSec > 0
          /\ added.FailoverConfig.MaxDisableCycles >= 1
          /\ added.RateLimitConfig.Enabled =>
                /\ added.RateLimitConfig.BucketSize >= 1
                /\ added.RateLimitConfig.RefillTPS > 0
    /\ \A i, j \in 1..Len(names) : names[i] = names[j] => i = j

(* ------------- Select under concurrent callers: SpecWrrMu -------------- *)
\* the weights of the registries of this specification
WmWeights == {<<1>>, <<1, 1>>, <<2, 1>>, <<1, 2>>}

\* s.mu.Lock() goes through whoever holds the mutex
SelectorLockFree_Always(m) == TRUE

\* s.mu.Lock() goes through: nobody holds the mutex
SelectorLockFree(m) == m = 0

\* the items with the current weights ws and with handlers that answer
\* IsDisabled as in seen
WithSeen(its, ws, seen) ==
    [i \in 1..Len(its) |->
        [its[i] EXCEPT !.currentWeight = ws[i],
                       !.failoverHandler.isPermanentlyDisabled = seen[i],
                       !.failoverHandler.disableUntil = ZeroTime]]

\* a WRR registry after initTranslatorEntries, goroutines outside Select
InitWrrMu ==
    /\ now = 1
    /\ FHIdle
    /\ SvcIdle
    /\ MuIdle
    /\ LimIdle
    /\ DetIdle
    /\ RlIdle
    /\ BotIdle
    /\ UpIdle
    /\ ConfIdle
    /\ InvIdle
    /\ SmoothIdle
    /\ LockIdle
    /\ selType = "wrr"
    /\ \E ws \in WmWeights :
          /\ items = [i \in 1..Len(ws) |->
                        NewCommonTranslator(i, ws[i], SelItemFailover, FALSE)]
          /\ totalConfigWeight = SumConfigWeight(items)
          /\ seqWeights = [i \in 1..Len(ws) |-> 0]
    /\ started = TRUE
    /\ sel = NoSelect
    /\ hist = <<>>
    /\ slid = FALSE
    /\ everDisabled = FALSE
    /\ nSkew = 0
    /\ selMu = 0
    /\ selProcs = [p \in 1..MaxSelProcs |-> IdleSelProc]
    /\ selHist = <<>>
    /\ nSelects = 0

wmRest == <<now, fhVars, selType, totalConfigWeight, started, sel, hist,
           slid, nSkew, svcVars, muVars, limVars, detVars, rlVars, botVars,
           upVars, confVars, invVars, smoothVars, lockVars>>

\* a goroutine calls Select (overlap: while another call holds the mutex)
WmCall ==
    \E p \in 1..MaxSelProcs :
        /\ selProcs[p].pc \in {"idle", "done"}
        /\ nSelects < MaxSelects
        /\ nSelects' = nSelects + 1
        /\ selProcs' = [selProcs EXCEPT ![p] =
                           [IdleSelProc EXCEPT !.pc = "lock",
                                               !.overlap = (selMu # 0)]]
        /\ UNCHANGED <<items, everDisabled, selMu, seqWeights, selHist, wmRest>>

\* s.mu.Lock(); selectedIndex := -1; maxCurrentWeight := 0
WmLock ==
    \E p \in 1..MaxSelProcs :
        /\ selProcs[p].pc = "lock"
        /\ SelectorLockFree(selMu)
        /\ selMu' = p
        /\ selProcs' = [selProcs EXCEPT ![p].pc = "scan", ![p].i = 1]
        /\ UNCHANGED <<items, everDisabled, seqWeights, selHist, nSelects,
                       wmRest>>

\* one turn of the loop over s.items
WmScan ==
    \E p \in 1..MaxSelProcs :
        LET pr == selProcs[p]
            acc == WRRStep([items |-> items,
                            selectedIndex |-> pr.selectedIndex,
                            maxCurrentWeight |-> pr.maxCurrentWeight],
                           pr.i, now)
        IN  /\ pr.pc = "scan"
            /\ items' = acc.items
            /\ selProcs' =
                  [selProcs EXCEPT
                     ![p].selectedIndex = acc.selectedIndex,
                     ![p].maxCurrentWeight = acc.maxCurrentWeight,
                     ![p].seen = Append(@, ItemIsDisabled(items[pr.i], now)),
                     ![p].i = pr.i + 1,
                     ![p].pc = IF pr.i = Len(items) THEN "subtract"
                               ELSE "scan"]
            /\ UNCHANGED <<everDisabled, selMu, seqWeights, selHist, nSelects,
                           wmRest>>

\* after the loop: no available item, or the total weight is taken off the
\* selected item
WmSubtract ==
    \E p \in 1..MaxSelProcs :
        LET pr == selProcs[p] IN
        /\ pr.pc = "subtract"
        /\ IF pr.selectedIndex = -1
           THEN /\ items' = items
                /\ selProcs' = [selProcs EXCEPT ![p].pc = "unlock",
                                   ![p].err = "no available item"]
           ELSE /\ items' = [items EXCEPT ![pr.selectedIndex].currentWeight =
                                             @ - totalConfigWeight]
                /\ selProcs' = [selProcs EXCEPT ![p].pc = "unlock",
                                   ![p].index = pr.selectedIndex]
        /\ UNCHANGED <<everDisabled, selMu, seqWeights, selHist, nSelects,
                       wmRest>>

\* the deferred s.mu.Unlock(); the same call is made on the weights of the
\* calls run one at a time, with the IsDisabled answers this call got
WmUnlock ==
    \E p \in 1..MaxSelProcs :
        LET pr == selProcs[p]
            seq == WRRSelect(WithSeen(items, seqWeights, pr.seen),
                             totalConfigWeight, now)
        IN  /\ pr.pc = "unlock"
            /\ selMu' = IF selMu = p THEN 0 ELSE selMu
            /\ seqWeights' = [i \in 1..Len(items) |->
                                 seq.items[i].currentWeight]
            /\ selHist' = Append(selHist, [index |-> pr.index,
                                           seqIndex |-> seq.index,
                                           overlap |-> pr.overlap])
            /\ selProcs' = [selProcs EXCEPT ![p].pc = "done"]
            /\ UNCHANGED <<items, everDisabled, nSelects, wmRest>>

\* a request on item i failed: CommonTranslator.onFailure
WmItemOnFailure ==
    \E i \in 1..Len(items) :
        /\ ~items[i].failoverHandler.isPermanentlyDisabled
        /\ items' = [items EXCEPT ![i].failoverHandler =
                                     OnFailureState(@, now)]
        /\ everDisabled' = (everDisabled \/ ItemIsDisabled(items'[i], now))
        /\ UNCHANGED <<wmVars, wmRest>>

\* a request on item i succeeded: CommonTranslator.onSuccess
WmItemOnSuccess ==
    \E i \in 1..Len(items) :
        /\ items[i].failoverHandler.isPermanentlyDisabled
        /\ items' = [items EXCEPT ![i].failoverHandler = OnSuccess(@)]
        /\ UNCHANGED <<everDisabled, wmVars, wmRest>>

NextWrrMu ==
    \/ WmCall
    \/ WmLock
    \/ WmScan
    \/ WmSubtract
    \/ WmUnlock
    \/ WmItemOnFailure
    \/ WmItemOnSuccess

SpecWrrMu == InitWrrMu /\ [][NextWrrMu]_vars

\* the calls of Select that returned item i
Returned(i) == Cardinality({k \in 1..Len(selHist) : selHist[k].index = i})

\* C26: the select-and-update sequence of WRR is one critical section.
\* At most one goroutine is between Lock and Unlock; whenever the mutex is
\* free the current weights are those the finished calls leave when run one
\* at a time in the order of their unlocks, and every finished call has
\* returned the item it returns in that run. With no item ever disabled,
\* the first W = totalConfigWeight calls return item i exactly
\* configWeight(i) times.
C26_SelectAtomic ==
    /\ \A p1, p2 \in DOMAIN selProcs :
          (selProcs[p1].pc \in {"scan", "subtract", "unlock"}
             /\ selProcs[p2].pc \in {"scan", "subtract", "unlock"}) => p1 = p2
    /\ selMu = 0 =>
          \A i \in 1..Len(items) : items[i].currentWeight = seqWeights[i]
    /\ \A k \in 1..Len(selHist) : selHist[k].index = selHist[k].seqIndex
    /\ (~everDisabled /\ Len(selHist) = totalConfigWeight) =>
          \A i \in 1..Len(items) : Returned(i) = items[i].configWeight

\* W calls on two items have returned with no item ever disabled, one of
\* them was made while another call held the mutex
C26_Witness ==
    /\ ~everDisabled
    /\ Len(items) = 2
    /\ Len(selHist) = totalConfigWeight
    /\ \E k \in 1..Len(selHist) : selHist[k].overlap

(* -------- the invoke path of one translator: SpecInvoke ---------------- *)
\* the step after ct.wait(ctx) returned err: the early return on an error
\* is missing, the instance is called in any case
AfterWait_NoEarlyReturn(err) == "instance"

\* the step after ct.wait(ctx) returned err: the attempt returns on an
\* error, the instance is called otherwise
AfterWait(err) == IF err # "nil" THEN "return" ELSE "instance"

\* the failover report for the error of the instance: onFailure on an
\* error, onSuccess otherwise
ReportFor(err) == IF err # "nil" THEN "OnFailure" ELSE "OnSuccess"

\* one translator with a new handler, goroutines outside Translate
InitInvoke ==
    /\ now = 1
    /\ \E conf \in FailoverConfigs : gfh = NewGeneralFailoverHandler(conf)
    /\ call = NoCall
    /\ nFail = 0
    /\ coolSeen = FALSE
    /\ coolAtSuccess = ZeroTime
    /\ SelIdle
    /\ LockIdle
    /\ SmoothIdle
    /\ SvcIdle
    /\ MuIdle
    /\ LimIdle
    /\ DetIdle
    /\ RlIdle
    /\ BotIdle
    /\ UpIdle
    /\ ConfIdle
    /\ WmIdle
    /\ invProcs = [p \in 1..MaxInvProcs |-> IdleInvoke]
    /\ nInv = 0

invRest == <<now, call, nFail, coolSeen, coolAtSuccess, selVars, svcVars,
            muVars, limVars, detVars, rlVars, botVars, confVars, wmVars,
             smoothVars, lockVars>>

\* CommonTranslator.Translate is entered
InvTranslate ==
    \E p \in 1..MaxInvProcs :
        /\ invProcs[p].pc \in {"idle", "done"}
        /\ nInv < MaxInvCalls
        /\ nInv' = nInv + 1
        /\ invProcs' = [invProcs EXCEPT ![p] = [IdleInvoke EXCEPT !.pc = "wait"]]
        /\ UNCHANGED <<gfh, upMetric, invRest>>

\* err = ct.wait(ctx) returns, with nil or with the limiter's error
InvWait ==
    \E p \in 1..MaxInvProcs, err \in {"nil", "rate limiter wait failed"} :
        /\ invProcs[p].pc = "wait"
        /\ invProcs' = [invProcs EXCEPT
                           ![p].pc = AfterWait(err),
                           ![p].err = err,
                           ![p].steps = Append(@, <<"wait", err>>)]
        /\ UNCHANGED <<gfh, upMetric, nInv, invRest>>

\* ct.instance.Translate(ctx, req) is called
InvInstanceCall ==
    \E p \in 1..MaxInvProcs :
        /\ invProcs[p].pc = "instance"
        /\ invProcs' = [invProcs EXCEPT
                           ![p].pc = "called",
                           ![p].steps = Append(@, <<"instance", "called">>)]
        /\ UNCHANGED <<gfh, upMetric, nInv, invRest>>

\* ct.instance.Translate returns tr, err
InvInstanceReturn ==
    \E p \in 1..MaxInvProcs, err \in {"nil", "instance error"} :
        /\ invProcs[p].pc = "called"
        /\ invProcs' = [invProcs EXCEPT
                           ![p].pc = "report",
                           ![p].err = err,
                           ![p].steps = Append(@, <<"instance", err>>)]
        /\ UNCHANGED <<gfh, upMetric, nInv, invRest>>

\* ct.onFailure() or ct.onSuccess()
InvReport ==
    \E p \in 1..MaxInvProcs :
        LET report == ReportFor(invProcs[p].err) IN
        /\ invProcs[p].pc = "report"
        /\ report = "OnFailure" =>
              gfh.disableCycleCount <
                  gfh.failoverConfig.MaxDisableCycles + ExtraCycles
        /\ IF report = "OnFailure"
           THEN /\ gfh' = OnFailureState(gfh, now)
                /\ upMetric' = IF OnFailureResult(gfh) THEN 0 ELSE upMetric
           ELSE /\ gfh' = OnSuccess(gfh)
                /\ upMetric' = 1
        /\ invProcs' = [invProcs EXCEPT
                           ![p].pc = "return",
                           ![p].steps = Append(@, <<"report", report>>)]
        /\ UNCHANGED <<nInv, invRest>>

\* CommonTranslator.Translate returns
InvReturn ==
    \E p \in 1..MaxInvProcs :
        /\ invProcs[p].pc = "return"
        /\ invProcs' = [invProcs EXCEPT ![p].pc = "done"]
        /\ UNCHANGED <<gfh, upMetric, nInv, invRest>>

NextInvoke ==
    \/ InvTranslate
    \/ InvWait
    \/ InvInstanceCall
    \/ InvInstanceReturn
    \/ InvReport
    \/ InvReturn

SpecInvoke == InitInvoke /\ [][NextInvoke]_vars

\* the steps of an attempt in which the limiter refused
RefusedAttempt == << <<"wait", "rate limiter wait failed">> >>

\* the steps of an attempt whose instance call returned err
InvokedAttempt(err, report) ==
    << <<"wait", "nil">>, <<"instance", "called">>, <<"instance", err>>,
       <<"report", report>> >>

\* the attempts the invoke path allows
AllowedAttempts ==
    {RefusedAttempt,
     InvokedAttempt("nil", "OnSuccess"),
     InvokedAttempt("instance error", "OnFailure")}

\* s is the beginning of t
IsPrefix(s, t) == Len(s) <= Len(t) /\ SubSeq(t, 1, Len(s)) = s

\* C27: in every attempt the limiter wait has returned before the instance
\* is called, the instance is called only after a wait without error, and
\* an instance call that returned is followed by exactly one failover
\* report before the attempt returns: OnSuccess exactly when the instance
\* returned no error, OnFailure exactly when it returned an error.
C27_InvokePathOrder ==
    \A p \in DOMAIN invProcs :
        /\ \E a \in AllowedAttempts : IsPrefix(invProcs[p].steps, a)
        /\ invProcs[p].pc \in {"return", "done"} =>
              invProcs[p].steps \in AllowedAttempts

\* of two attempts that have returned, one was refused by the limiter and
\* one had its instance fail and reported the failure
C27_Witness ==
    \E p1, p2 \in DOMAIN invProcs :
        /\ invProcs[p1].pc = "done"
        /\ invProcs[p1].steps = RefusedAttempt
        /\ invProcs[p2].pc = "done"
        /\ invProcs[p2].steps = InvokedAttempt("instance error", "OnFailure")
        /\ gfh.failures + gfh.disableCycleCount > 0

(* ------ the retry loop with any max_retry of the file: SpecRetry ------- *)
\* as InitSvc with the round-robin selector (the loop does not look at the
\* selector's type), with a max_retry that may also be negative
InitRetry ==
    /\ now = 1
    /\ FHIdle
    /\ selType = "wrr"
    /\ \E ws \in SvcWeights, conf \in SvcFailoverConfigs, limited \in BOOLEAN :
          /\ Len(ws) <= MaxSvcItems
          /\ items = [i \in 1..Len(ws) |->
                          NewCommonTranslator(i, ws[i], conf, limited)]
          /\ totalConfigWeight = IF selType = "wrr"
                                 THEN SumConfigWeight(items) ELSE 0
    /\ started = TRUE
    /\ sel = NoSelect
    /\ hist = <<>>
    /\ slid = FALSE
    /\ everDisabled = FALSE
    /\ nSkew = 0
    /\ svc \in [maxmiumRetry : -1..MaxRetry, retryCooldown : 1..MaxRetryCooldown]
    /\ callers = EmptyBag
    /\ result = IdleCaller
    /\ nCalls = 0
    /\ everSucceeded = FALSE
    /\ ExtIdle

SpecRetry == InitRetry /\ [][NextSvc]_vars

\* the attempts a call of Translate may make: max(maxmiumRetry, 0) + 1
MaxAttempts == (IF svc.maxmiumRetry > 0 THEN svc.maxmiumRetry ELSE 0) + 1

\* C28: the shape of the retry loop. A call of Translate never makes more
\* than max(maxmiumRetry, 0) + 1 attempts; it has slept exactly once before
\* every attempt but the first, always for retryCooldown seconds; it
\* sleeps only when another attempt is left, so not after a success and
\* not after the last attempt; with maxmiumRetry <= 0 a call that has
\* ended has made exactly one attempt.
C28_RetryShape ==
    \A cl \in BagToSet(callers) \cup {result} :
        cl.pc # "idle" =>
            /\ cl.attempts >= 1
            /\ cl.attempts <= MaxAttempts
            /\ cl.pc = "sleep" =>
                  /\ cl.sleeps = cl.attempts
                  /\ cl.attempts < MaxAttempts
                  /\ cl.err # "nil"
                  /\ cl.wake = cl.sleptAt + svc.retryCooldown
            /\ cl.pc # "sleep" => cl.sleeps = cl.attempts - 1
            /\ (cl.pc \in {"done", "panic"} /\ svc.maxmiumRetry <= 0) =>
                  cl.attempts = 1

\* a call has ended in its third attempt after two sleeps, and it found the
\* first attempt failed so that it slept
C28_Witness ==
    /\ result.pc = "done"
    /\ result.attempts = 3
    /\ result.sleeps = 2
    /\ svc.maxmiumRetry = 2

(* ------ Select before, during and after a disablement: SpecSmooth ------ *)
\* a registry of enabled items built by AddItem, no call of Select made yet
InitSmooth ==
    /\ now = 1
    /\ FHIdle
    /\ SvcIdle
    /\ MuIdle
    /\ LimIdle
    /\ DetIdle
    /\ RlIdle
    /\ BotIdle
    /\ UpIdle
    /\ ConfIdle
    /\ WmIdle
    /\ InvIdle
    /\ LockIdle
    /\ selType = "wrr"
    /\ \E ws \in WmWeights :
          /\ items = [i \in 1..Len(ws) |->
                        NewCommonTranslator(i, ws[i], SelItemFailover, FALSE)]
          /\ totalConfigWeight = SumConfigWeight(items)
    /\ started = TRUE
    /\ sel = NoSelect
    /\ hist = <<>>
    /\ slid = FALSE
    /\ everDisabled = FALSE
    /\ nSkew = 0
    /\ run = NoRun
    /\ win = <<>>

smoothRest == <<muVars, limVars, detVars, rlVars, botVars, upVars, confVars,
                wmVars, invVars, lockVars>>

\* the run after a call of Select that returned item index (-1: an error)
\* and found the items of scan disabled: it goes on when the call returned
\* the item of the run while another item was enabled
RunAfter(r, index, scan) ==
    IF index = -1 \/ ~ \E j \in DOMAIN scan : j # index /\ ~scan[j]
    THEN NoRun
    ELSE IF r.index = index
         THEN [r EXCEPT !.calls = @ + 1]
         ELSE [index |-> index, calls |-> 1]

\* the window after that call: it starts again at a call that found an item
\* disabled, and holds the last total results otherwise
WinAfter(w, index, scan, total) ==
    IF index = -1 \/ \E j \in DOMAIN scan : scan[j]
    THEN <<>>
    ELSE IF Len(w) < total THEN Append(w, index) ELSE Append(Tail(w), index)

SmoothSelect ==
    /\ SelectCall
    /\ run' = RunAfter(run, sel'.index, sel'.scan)
    /\ win' = WinAfter(win, sel'.index, sel'.scan, totalConfigWeight)
    /\ UNCHANGED smoothRest

SmoothItemOnFailure == ItemOnFailure /\ UNCHANGED <<smoothRest, smoothVars>>

SmoothItemOnSuccess == ItemOnSuccess /\ UNCHANGED <<smoothRest, smoothVars>>

NextSmooth == SmoothSelect \/ SmoothItemOnFailure \/ SmoothItemOnSuccess

SpecSmooth == InitSmooth /\ [][NextSmooth]_vars

\* the calls of Select in window w that returned item i
TimesIn(w, i) == Cardinality({k \in 1..Len(w) : w[k] = i})

\* C30: Select never returns an enabled item of weight w in more than w calls
\* one after the other while another item is enabled, and totalConfigWeight
\* calls one after the other that found every item enabled return each item
\* as many times as its weight, also after items were disabled and enabled
\* again
C30_SmoothAcrossDisablement ==
    /\ run.index # -1 => run.calls <= items[run.index].configWeight
    /\ Len(win) = totalConfigWeight =>
          \A i \in 1..Len(items) : TimesIn(win, i) = items[i].configWeight

(* ---- a handler built from a configuration that passed: SpecMerged ----- *)
\* the failover sections of the translators of the file
FailoverInputs ==
    [MaxFailures : {0, 1}, CooldownBaseSec : {0, 1}, MaxDisableCycles : {0, 1}]

\* the failover configurations NewCommonTranslator is given: those that
\* CheckAndMerge lets through, merged with the defaults of the file
MergedFailoverConfigs ==
    {CheckAndMerge(fc, d).fc :
        <<fc, d>> \in {x \in FailoverInputs \X DefaultFailoverInputs :
                          CheckAndMerge(x[1], x[2]).err = "nil"}}

\* NewGeneralFailoverHandler on a configuration that passed the checks
InitMerged ==
    /\ now = 1
    /\ \E conf \in MergedFailoverConfigs :
          gfh = NewGeneralFailoverHandler(conf)
    /\ call = NoCall
    /\ nFail = 0
    /\ coolSeen = FALSE
    /\ coolAtSuccess = ZeroTime
    /\ SelIdle
    /\ SvcIdle
    /\ ExtIdle

SpecMerged == InitMerged /\ [][NextFH]_vars

\* C34: a handler is permanently disabled exactly when its disableCycleCount
\* has reached maxDisableCycles; with maxDisableCycles = 1 the OnFailure that
\* reaches the failure threshold disables it permanently and sets no cooldown
C34_PermanentIffCycles ==
    /\ gfh.isPermanentlyDisabled <=>
          gfh.disableCycleCount >= gfh.failoverConfig.MaxDisableCycles
    /\ (/\ call.op = "OnFailure"
        /\ gfh.failoverConfig.MaxDisableCycles = 1
        /\ call.pre.failures + 1 >= gfh.failoverConfig.MaxFailures) =>
          /\ gfh.isPermanentlyDisabled
          /\ gfh.disableUntil = call.pre.disableUntil

(* ------ the selector's lock and the items' locks: SpecLocks ------------ *)
\* the mutex after Unlock of a function that forgets to unlock it
Unlock_Forgotten(m) == m

\* the mutex after Unlock
Unlock(m) == 0

\* a selector with its items added, every lock free, no call under way
InitLocks ==
    /\ now = 1
    /\ FHIdle
    /\ SelIdle
    /\ SvcIdle
    /\ MuIdle
    /\ LimIdle
    /\ DetIdle
    /\ RlIdle
    /\ BotIdle
    /\ UpIdle
    /\ ConfIdle
    /\ WmIdle
    /\ InvIdle
    /\ SmoothIdle
    /\ \E n \in 1..MaxLockItems, type \in {"wrr", "fallback"} :
          /\ locks = [sel |-> 0, fo |-> [i \in 1..n |-> 0],
                      w |-> [i \in 1..n |-> 0]]
          /\ lkReg = [type |-> type, disabled |-> [i \in 1..n |-> FALSE]]
    /\ lkProcs = [p \in 1..MaxLockProcs |-> IdleLockProc]
    /\ nLk = 0

lockRest == <<now, fhVars, selVars, svcVars, muVars, limVars, detVars, rlVars,
              botVars, upVars, confVars, wmVars, invVars, smoothVars>>

\* the item lock a goroutine takes next: the failover handler's mu in
\* IsDisabled, OnSuccess and OnFailure, the item's weightedMu in
\* GetCurrentWeight, GetConfigWeight and SetCurrentWeight
WantedLock(pr) ==
    CASE pr.phase = "handler" -> <<"fo", pr.item>>
      [] pr.phase = "scan" -> <<"fo", pr.i>>
      [] pr.phase \in {"before", "weights", "after"} -> <<"w", pr.i>>
      [] pr.phase = "subtract" -> <<"w", pr.selectedIndex>>
      [] OTHER -> <<"none", 0>>

\* Select of the round-robin selector after the loop turn of item pr.i
NextItem(pr, n) ==
    IF pr.i < n THEN [pr EXCEPT !.phase = "scan", !.i = @ + 1, !.n = 0]
    ELSE IF pr.selectedIndex = -1
         THEN [pr EXCEPT !.phase = "unlock", !.n = 0]
         ELSE [pr EXCEPT !.phase = "subtract", !.n = 2]

\* the goroutine after it has released an item lock: n items, the selector's
\* type, the IsDisabled answer it got, whether the item is the new maximum
AfterItemLock(pr, n, type, disabled, newMax) ==
    CASE pr.phase = "handler" -> [IdleLockProc EXCEPT !.phase = "done"]
      [] pr.phase = "before" ->
           IF pr.i < n THEN [pr EXCEPT !.i = @ + 1]
           ELSE [pr EXCEPT !.phase = "scan", !.i = 1]
      [] pr.phase = "scan" /\ type = "fallback" ->
           IF ~disabled \/ pr.i = n THEN [pr EXCEPT !.phase = "unlock"]
           ELSE [pr EXCEPT !.i = @ + 1]
      [] pr.phase = "scan" /\ type = "wrr" ->
           IF disabled THEN NextItem(pr, n)
           ELSE IF pr.selectedIndex = -1
                THEN [pr EXCEPT !.phase = "weights", !.n = 4,
                                !.selectedIndex = pr.i]
                ELSE IF newMax
                     THEN [pr EXCEPT !.phase = "weights", !.n = 5,
                                     !.selectedIndex = pr.i]
                     ELSE [pr EXCEPT !.phase = "weights", !.n = 4]
      [] pr.phase = "weights" ->
           IF pr.n > 1 THEN [pr EXCEPT !.n = @ - 1] ELSE NextItem(pr, n)
      [] pr.phase = "subtract" ->
           IF pr.n > 1 THEN [pr EXCEPT !.n = @ - 1]
           ELSE [pr EXCEPT !.phase = "after", !.i = 1, !.n = 0]
      [] pr.phase = "after" ->
           IF pr.i < n THEN [pr EXCEPT !.i = @ + 1]
           ELSE [pr EXCEPT !.phase = "unlock"]
      [] OTHER -> pr

\* a goroutine calls Select, or OnSuccess, OnFailure or IsDisabled of an item
LkCall(p) ==
    /\ lkProcs[p].phase \in {"idle", "done"}
    /\ nLk < MaxLockCalls
    /\ nLk' = nLk + 1
    /\ \/ lkProcs' = [lkProcs EXCEPT ![p] =
                         [IdleLockProc EXCEPT !.op = "Select",
                                              !.phase = "lock"]]
       \/ \E op \in {"OnSuccess", "OnFailure", "IsDisabled"},
             k \in 1..Len(lkReg.disabled) :
             lkProcs' = [lkProcs EXCEPT ![p] =
                            [IdleLockProc EXCEPT !.op = op, !.item = k,
                                                 !.phase = "handler"]]
    /\ UNCHANGED <<locks, lkReg, lockRest>>

\* s.mu.Lock() in Select
LkLockSelector(p) ==
    /\ lkProcs[p].phase = "lock"
    /\ MutexFree(locks.sel)
    /\ locks' = [locks EXCEPT !.sel = p]
    /\ lkProcs' = [lkProcs EXCEPT
                      ![p].phase = IF lkReg.type = "wrr" THEN "before"
                                   ELSE "scan",
                      ![p].i = 1]
    /\ UNCHANGED <<lkReg, nLk, lockRest>>

\* Lock() of the item lock the goroutine has come to
LkLockItem(p) ==
    LET pr == lkProcs[p]
        l == WantedLock(pr)
    IN  /\ l[1] # "none"
        /\ ~pr.hold
        /\ MutexFree(locks[l[1]][l[2]])
        /\ locks' = [locks EXCEPT ![l[1]][l[2]] = p]
        /\ lkProcs' = [lkProcs EXCEPT ![p].hold = TRUE]
        /\ UNCHANGED <<lkReg, nLk, lockRest>>

\* what the function does under the item lock, and its Unlock(): OnFailure
\* may disable the item, OnSuccess enables it, IsDisabled answers
LkUnlockItem(p) ==
    LET pr == lkProcs[p]
        l == WantedLock(pr)
    IN  /\ pr.hold
        /\ locks' = [locks EXCEPT ![l[1]][l[2]] = Unlock(@)]
        /\ \E newMax \in BOOLEAN :
              lkProcs' = [lkProcs EXCEPT ![p] =
                  [AfterItemLock(pr, Len(lkReg.disabled), lkReg.type,
                                 lkReg.disabled[l[2]], newMax)
                      EXCEPT !.hold = FALSE]]
        /\ \/ /\ pr.op = "OnFailure"
              /\ \E d \in BOOLEAN :
                    lkReg' = [lkReg EXCEPT !.disabled[pr.item] = (@ \/ d)]
           \/ /\ pr.op = "OnSuccess"
              /\ lkReg' = [lkReg EXCEPT !.disabled[pr.item] = FALSE]
           \/ /\ pr.op \in {"Select", "IsDisabled"}
              /\ lkReg' = lkReg
        /\ UNCHANGED <<nLk, lockRest>>

\* the deferred s.mu.Unlock() of Select
LkUnlockSelector(p) ==
    /\ lkProcs[p].phase = "unlock"
    /\ locks' = [locks EXCEPT !.sel = Unlock(@)]
    /\ lkProcs' = [lkProcs EXCEPT
                      ![p] = [IdleLockProc EXCEPT !.phase = "done"]]
    /\ UNCHANGED <<lkReg, nLk, lockRest>>

\* the steps of goroutine p inside a call
LkRun(p) ==
    LkLockSelector(p) \/ LkLockItem(p) \/ LkUnlockItem(p)
        \/ LkUnlockSelector(p)

NextLocks ==
    \/ \E p \in 1..MaxLockProcs : LkCall(p)
    \/ \E p \in 1..MaxLockProcs : LkLockSelector(p)
    \/ \E p \in 1..MaxLockProcs : LkLockItem(p)
    \/ \E p \in 1..MaxLockProcs : LkUnlockItem(p)
    \/ \E p \in 1..MaxLockProcs : LkUnlockSelector(p)

\* every goroutine inside a call is scheduled again
SpecLocks ==
    /\ InitLocks
    /\ [][NextLocks]_vars
    /\ \A p \in 1..MaxLockProcs : WF_vars(LkRun(p))

\* Select holds the selector's lock from its Lock() to its deferred
\* Unlock(), and only then; a goroutine holds one item lock at most, the one
\* of the function it is in; outside a call it holds nothing
LockOrder ==
    \A p \in 1..MaxLockProcs :
        LET pr == lkProcs[p] IN
        /\ (locks.sel = p) <=>
              (pr.op = "Select" /\ pr.phase \notin {"idle", "lock", "done"})
        /\ \A i \in DOMAIN locks.fo :
              /\ locks.fo[i] = p => (pr.hold /\ WantedLock(pr) = <<"fo", i>>)
              /\ locks.w[i] = p => (pr.hold /\ WantedLock(pr) = <<"w", i>>)
        /\ pr.hold => locks[WantedLock(pr)[1]][WantedLock(pr)[2]] = p
        /\ pr.phase \in {"idle", "lock", "done"} => ~pr.hold

\* C38: the selector's lock is taken before any item lock and never while
\* one is held, every lock is released by the call that took it, and every
\* call of Select, OnSuccess, OnFailure and IsDisabled that has started
\* ends, whatever else runs at the same time: once the calls that are ever
\* made have started, a moment comes from which no goroutine is inside one
C38_LocksNeverBlockForever ==
    /\ []LockOrder
    /\ <>[](\A p \in 1..MaxLockProcs :
                lkProcs[p].phase \in {"idle", "done"})

\* a Select holds the selector's lock and waits for the failover lock of an
\* item while an OnFailure on that item holds it
C38_Witness ==
    \E p, r \in 1..MaxLockProcs :
        /\ locks.sel = p
        /\ lkProcs[p].phase = "scan"
        /\ ~lkProcs[p].hold
        /\ locks.fo[lkProcs[p].i] = r
        /\ lkProcs[r].op = "OnFailure"
====
